---- MODULE Spec2Model ----
(***************************************************************************)
(* Type-erased callable containers of sh-function: the four owning         *)
(* variants (move_only_function, copyable_function,                        *)
(* inplace_move_only_function, inplace_copyable_function) as a state       *)
(* machine over a small set of container objects.  A container is a vtable *)
(* pointer plus a storage union; every handler is a sequence of calls      *)
(* through the vtable, modelled by the operators m_dtor, m_move, m_copy    *)
(* and m_call on a machine record (storages, heap, resource counts).       *)
(*                                                                         *)
(* Payloads are the closures of the test suites: a closure captures a      *)
(* `counter` (a pointer to an int that the counter increments when it is   *)
(* constructed or copied and decrements when it is destroyed) and a        *)
(* mutable int that a call overwrites.                                     *)
(*                                                                         *)
(* Reading storage that holds no live object of the expected type is       *)
(* undefined behaviour.  The read yields what the bytes hold: the counter  *)
(* of a differently typed closure, the allocated pointer taken for a       *)
(* counter's pointer, or any value when the bytes are uninitialised or     *)
(* left by a destroyed object.  A counter whose pointer is not the address *)
(* of a counted int writes wherever it points.  The undefined behaviour an *)
(* operation executes is recorded in `faults`.                             *)
(*                                                                         *)
(* Two specifications share the actions.  Spec runs the containers of a    *)
(* throwing signature on the closures of the tests, copies and self-swap   *)
(* included, and invokes only containers that hold a payload.  SigSpec     *)
(* draws the signature (NoExcept) and the build (NDEBUG), binds callables  *)
(* whose call, move or copy may throw as well, and also invokes empty      *)
(* containers; it leaves copies and self-swap to Spec.  FailSpec adds to    *)
(* SigSpec the bindings whose payload construction fails, and NestSpec the *)
(* payloads that invoke their own container.  CopyFailSpec (copy           *)
(* assignments whose payload copy throws) and SelfMoveSpec (self move      *)
(* assignments in both builds) follow a behaviour up to its first          *)
(* undefined operation.                                                    *)
(*                                                                         *)
(* The two non-owning wrappers, function_ptr and function_ref, are a       *)
(* target pointer plus a trampoline.  RefSpec runs them against a client   *)
(* that declares function pointer variables and functors in a stack slot   *)
(* and ends their scope; AllSpec is SigSpec and RefSpec together.          *)
(* TableSpec runs several threads through the accessors of the static      *)
(* tables, null_vtable() and callable_vtable<Callable>().                  *)
(***************************************************************************)
EXTENDS Integers, FiniteSets, Sequences, TLC

\* ------------------------------------------------------------------ bounds
\* Number of container objects (x, y) the client code declares.
MaxCont == 2
\* Number of distinct ints the captured counters point at (a_value, b_value).
MaxRes == 2
\* Largest argument passed to a call.
MaxArg == 1
\* Largest number of unmatched stray increments or decrements of one payload's
\* counter pointer.
MaxSkew == 1
\* Free functions a wrapper can be pointed at, and the local variables of the
\* client (holders of function pointers, functors) a wrapper can refer to.
MaxFunc == 2
MaxLocal == 1
\* Threads that bind callables concurrently.
MaxThread == 3

Cont == 1..MaxCont
Resources == 1..MaxRes
Args == 0..MaxArg
\* The local `temp` storage of swap.
Temp == 0
Slots == 0..MaxCont
\* Heap cells: at most one allocation per container is ever live.
Addrs == 1..MaxCont

VARIABLES
    variant,    \* which of the four class templates the containers instantiate
    alive,      \* alive[c]: container c is within its lifetime
    m_vtable,   \* m_vtable[c]: the vtable pointer of c
    m_storage,  \* m_storage[c]: the storage union of c
    heap,       \* heap[a]: the payload object allocated at a, or NoObj
    count,      \* count[r]: the int the counters of resource r point at
    faults,     \* undefined behaviour executed by the last operation
    last,       \* the last operation: its name, the container it was invoked
                \* on (self), its container argument (other, or 0), the value
                \* a call returned (ret), the number of payload objects its
                \* m_dtor calls destroyed (released), the number of its
                \* new-expressions (allocated) and delete-expressions (freed),
                \* the number of times it invoked a callable (invoked),
                \* the number of payload move constructions (moved)
                \* and how it ended (exit)
    NoExcept,   \* the NoExcept template argument: the signature is noexcept
    NDEBUG,     \* the build defines NDEBUG: assert() expands to nothing
    m_target,   \* m_target[w]: the void* of the non-owning wrapper w
    m_invoke_target, \* m_invoke_target[w]: the trampoline w dispatches through
    locals,     \* locals[s]: the client's local variable in stack slot s
    guard,      \* guard[T]: initialisation state of the static table of T
    instance,   \* instance[T]: the members of the static table built so far
    thread      \* thread[t]: where thread t is inside callable_vtable<T>()

vars == <<variant, alive, m_vtable, m_storage, heap, count, faults, last,
          NoExcept, NDEBUG, m_target, m_invoke_target, locals,
          guard, instance, thread>>

\* ------------------------------------------------------------------ types
Variants == {"move_only_function", "copyable_function",
             "inplace_move_only_function", "inplace_copyable_function"}

HeapFallback(v) == v \in {"move_only_function", "copyable_function"}
Copyable(v) == v \in {"copyable_function", "inplace_copyable_function"}

\* The payload types bound to the containers: the two closures of the tests,
\* one capturing a counter ("small") and one capturing a counter and int[64]
\* ("large"), and a closure capturing a counter and one more pointer-sized
\* value ("exact"), exactly as large as the heap-fallback capacity.
PayloadTypes == {"small", "exact", "large"}

\* Closures as small as "small" whose type can throw in one operation: from
\* its call operator, from its move constructor, from its copy constructor.
\* Only what the type traits say of them is modelled; in the runs modelled
\* none of them does throw.
ThrowingTypes == {"throwing_call", "throwing_move", "throwing_copy"}

CallableTypes == PayloadTypes \cup ThrowingTypes

SizeOf(T) == CASE T = "small" -> 8
               [] T = "exact" -> 16
               [] T = "large" -> 264
               [] OTHER -> 8

\* std::is_nothrow_move_constructible_v<T>
NothrowMove(T) == T # "throwing_move"
\* std::is_nothrow_invocable_r_v<result_type, T, Args...>
NothrowInvocable(T) == T # "throwing_call"
\* std::is_nothrow_copy_constructible_v<T>: the copy m_copy performs, which
\* no binding inspects.
NothrowCopy(T) == T # "throwing_copy"

\* What the payload adds to its argument when called.
Addend(T) == CASE T = "small" -> 1
               [] T = "exact" -> 2
               [] T = "large" -> 3
               [] OTHER -> 4

\* move_only_function_storage::capacity, sizeof(void*) * 2.
capacity == 16
\* The Capacity template argument of the inplace variants.
Capacity == 16

\* A store_inplace that looks at the size alone.
store_inplace_sizeonly(T) == SizeOf(T) <= capacity

store_inplace(T) == SizeOf(T) <= capacity /\ NothrowMove(T)

\* Whether the vtable generated for T keeps the payload in the storage bytes.
StoredInline(T) == IF HeapFallback(variant) THEN store_inplace(T) ELSE TRUE

\* A binding check without the static_assert on is_nothrow_invocable_r_v.
Bindable_anycall(T) ==
    IF HeapFallback(variant) THEN TRUE
    ELSE SizeOf(T) <= Capacity /\ NothrowMove(T)

\* A binding check without the static_assert on the size.
Bindable_anysize(T) ==
    /\ NoExcept => NothrowInvocable(T)
    /\ IF HeapFallback(variant) THEN TRUE ELSE NothrowMove(T)

\* Whether the callable constructor / assignment compiles for T.
Bindable(T) ==
    /\ NoExcept => NothrowInvocable(T)
    /\ IF HeapFallback(variant) THEN TRUE
       ELSE SizeOf(T) <= Capacity /\ NothrowMove(T)

\* ------------------------------------------------------------------ vtables
\* A null pointer: no code path stores it into m_vtable.
nullptr == "nullptr"
\* m_vtable of memory that is not a constructed container.
Indeterminate == "indeterminate"

null_vtable == "null_vtable"
callable_vtable(T) == T

Vtables == {null_vtable} \cup {callable_vtable(T) : T \in CallableTypes}

\* ------------------------------------------------------------------ storage
\* A payload object: its closure type, its counter's m_value (res), the
\* number of stray increments that hit the low word of m_value (skew) and
\* its mutable int (val).  m_value is null (0), the address of the counted
\* int of a resource (1..MaxRes), the address of a heap cell (HeapPtr) or an
\* address of nothing the program owns (Bad).
NoObj == [type |-> "none", res |-> 0, skew |-> 0, val |-> 0]
Obj(T, r, v) == [type |-> T, res |-> r, skew |-> 0, val |-> v]
HeapPtr(a) == 0 - a
Bad == MaxRes + 1

RawStorage == [k |-> "raw", obj |-> NoObj, addr |-> 0]
DeadStorage == [k |-> "dead", obj |-> NoObj, addr |-> 0]
InplaceStorage(o) == [k |-> "obj", obj |-> o, addr |-> 0]
PtrStorage(a) == [k |-> "ptr", obj |-> NoObj, addr |-> a]

\* The machine the vtable functions operate on.
Machine == [st |-> [s \in Slots |-> IF s = Temp THEN RawStorage ELSE m_storage[s]],
            heap |-> heap, count |-> count, faults |-> {}, released |-> 0,
            allocated |-> 0, freed |-> 0, invoked |-> 0, moved |-> 0]

\* ------------------------------------------------------------------ counter
\* The value of a counted int after a write that did not go through its
\* address.
Corrupt == 0 - 1

\* ++(*m_value) (d = 1) or --(*m_value) (d = -1) by the counter of object o,
\* guarded by m_value != nullptr.
Bump(M, o, d) ==
    IF o.res = 0 /\ o.skew = 0 THEN M
    ELSE IF o.res \in Resources /\ o.skew = 0
    THEN [M EXCEPT !.count = [@ EXCEPT ![o.res] = IF @ = Corrupt THEN @ ELSE @ + d]]
    ELSE IF o.res \in Resources
    THEN \* a misaligned write that overlaps the counted int
         [M EXCEPT !.count = [@ EXCEPT ![o.res] = Corrupt],
                   !.faults = @ \cup {"wild_write"}]
    ELSE IF (0 - o.res) \in Addrs /\ M.heap[0 - o.res] # NoObj
    THEN \* the write hits the first word of a heap payload: its counter's pointer
         [M EXCEPT !.heap = [@ EXCEPT ![0 - o.res] =
                                IF o.skew = 0 THEN [@ EXCEPT !.skew = @ + d]
                                ELSE [@ EXCEPT !.res = Bad, !.skew = 0]],
                   !.faults = @ \cup {"wild_write"}]
    ELSE [M EXCEPT !.faults = @ \cup {"wild_write"}]

\* Values a counter pointer read from uninitialised or dead bytes can have:
\* null (a moved-from counter) or the address of a counted int (a stale
\* counter).
GarbageRes == {0} \cup Resources

\* What a vtable function reads from its source: the object it finds (obj),
\* the pointer it finds (addr), and the undefined behaviour of the read.
Read(o, a, f) == [obj |-> o, addr |-> a, fault |-> f]

\* *reinterpret_cast<T*>(&storage.m_inplace): the object, or garbage.
\* Every closure type captures its counter first: bytes that hold another
\* closure yield that closure's counter, bytes that hold m_allocated yield a
\* counter pointing at the heap cell.
ReadAs(T, s) ==
    IF s.k = "obj" /\ s.obj.type = T
    THEN {Read(s.obj, 0, {})}
    ELSE IF s.k = "obj"
    THEN {Read([s.obj EXCEPT !.type = T, !.val = v], 0, {"bad_read"}) : v \in Args}
    ELSE IF s.k = "ptr"
    THEN {Read(Obj(T, HeapPtr(s.addr), v), 0, {"bad_read"}) : v \in Args}
    ELSE {Read(Obj(T, g, v), 0, {"bad_read"}) : g \in GarbageRes, v \in Args}

\* *static_cast<T*>(storage.m_allocated): the heap object, or garbage.
Deref(T, hp, s) ==
    IF s.k = "ptr" /\ hp[s.addr].type = T
    THEN {Read(hp[s.addr], s.addr, {})}
    ELSE {Read(Obj(T, g, v), 0, {"bad_read"}) : g \in GarbageRes, v \in Args}

\* storage.m_allocated read as a pointer value.
ReadPtr(s) ==
    IF s.k = "ptr"
    THEN {Read(NoObj, s.addr, {})}
    ELSE {Read(NoObj, a, {"bad_read"}) : a \in Addrs}

NoRead == {Read(NoObj, 0, {})}

\* operator new: the lowest free cell.
FreeAddrs(hp) == {a \in Addrs : hp[a] = NoObj}
Alloc(hp) == CHOOSE a \in FreeAddrs(hp) : \A b \in FreeAddrs(hp) : a <= b

\* ------------------------------------------------------------------ vtable functions
\* Each function comes as a pair: X_reads, the values its reads of the machine
\* can yield (one, unless it reads storage that holds no live object of its
\* type), and X, the machine it leaves for the read r.

\* An m_dtor whose heap branch destroys the payload without deallocating it.
m_dtor_leak(vt, M, s, r) ==
    IF vt = null_vtable THEN M
    ELSE IF vt \notin CallableTypes THEN [M EXCEPT !.faults = @ \cup {"null_deref"}]
    ELSE IF StoredInline(vt)
    THEN [Bump(M, r.obj, 0 - 1) EXCEPT
                   !.released = @ + 1,
                   !.st = [@ EXCEPT ![s] = DeadStorage]]
    ELSE [Bump(M, r.obj, 0 - 1) EXCEPT !.released = @ + 1]

\* m_dtor of the vtable vt, on storage slot s.
m_dtor_reads(vt, M, s) ==
    IF vt \notin CallableTypes THEN NoRead
    ELSE IF StoredInline(vt) THEN ReadAs(vt, M.st[s])
    ELSE Deref(vt, M.heap, M.st[s])

m_dtor(vt, M, s, r) ==
    IF vt = null_vtable THEN M
    ELSE IF vt \notin CallableTypes THEN [M EXCEPT !.faults = @ \cup {"null_deref"}]
    ELSE IF StoredInline(vt)
    THEN \* reinterpret_cast<Callable*>(&storage.m_inplace)->~Callable();
         [Bump(M, r.obj, 0 - 1) EXCEPT
                   !.released = @ + 1,
                   !.st = [@ EXCEPT ![s] = DeadStorage],
                   !.faults = @ \cup (IF r.fault = {} THEN {} ELSE {"double_destroy"})]
    ELSE \* delete static_cast<Callable*>(storage.m_allocated);
         [Bump(M, r.obj, 0 - 1) EXCEPT
                   !.released = @ + 1,
                   !.freed = @ + 1,
                   !.heap = IF M.st[s].k = "ptr"
                            THEN [@ EXCEPT ![M.st[s].addr] = NoObj] ELSE @,
                   !.faults = @ \cup (IF r.fault = {} THEN {} ELSE {"double_free"})]

\* m_move of the vtable vt: move src into dst, then destroy src.
m_move_reads(vt, M, src) ==
    IF vt \notin CallableTypes THEN NoRead
    ELSE IF StoredInline(vt) THEN ReadAs(vt, M.st[src])
    ELSE ReadPtr(M.st[src])

\* An m_move whose empty table copies the storage bytes across.
m_move_nullcopy(vt, M, dst, src, r) ==
    IF vt = null_vtable THEN [M EXCEPT !.st = [@ EXCEPT ![dst] = M.st[src]]]
    ELSE IF vt \notin CallableTypes THEN [M EXCEPT !.faults = @ \cup {"null_deref"}]
    ELSE IF StoredInline(vt)
    THEN [M EXCEPT !.st = [@ EXCEPT ![dst] = InplaceStorage(r.obj),
                                    ![src] = DeadStorage],
                   !.moved = @ + 1,
                   !.faults = @ \cup r.fault]
    ELSE [M EXCEPT !.st = [@ EXCEPT ![dst] = PtrStorage(r.addr)],
                   !.faults = @ \cup r.fault]

\* An m_move whose inline branch leaves the counter in the moved-from source,
\* so that destroying the source releases it.
m_move_srcrelease(vt, M, dst, src, r) ==
    IF vt = null_vtable THEN M
    ELSE IF vt \notin CallableTypes THEN [M EXCEPT !.faults = @ \cup {"null_deref"}]
    ELSE IF StoredInline(vt)
    THEN [Bump(M, r.obj, 0 - 1) EXCEPT
                   !.st = [@ EXCEPT ![dst] = InplaceStorage(r.obj),
                                    ![src] = DeadStorage],
                   !.faults = @ \cup r.fault]
    ELSE [M EXCEPT !.st = [@ EXCEPT ![dst] = PtrStorage(r.addr)],
                   !.faults = @ \cup r.fault]

\* An m_move that copy-constructs the destination from the source and leaves
\* the source alive.
m_move_copying(vt, M, dst, src, r) ==
    IF vt = null_vtable THEN M
    ELSE IF vt \notin CallableTypes THEN [M EXCEPT !.faults = @ \cup {"null_deref"}]
    ELSE IF StoredInline(vt)
    THEN [Bump(M, r.obj, 1) EXCEPT
                   !.st = [@ EXCEPT ![dst] = InplaceStorage(r.obj)],
                   !.faults = @ \cup r.fault]
    ELSE [M EXCEPT !.st = [@ EXCEPT ![dst] = PtrStorage(r.addr)],
                   !.faults = @ \cup r.fault]

\* An m_move whose heap branch moves the payload into a fresh allocation
\* and deletes the old one.
m_move_realloc(vt, M, dst, src, r) ==
    IF vt = null_vtable THEN M
    ELSE IF vt \notin CallableTypes THEN [M EXCEPT !.faults = @ \cup {"null_deref"}]
    ELSE IF StoredInline(vt)
    THEN [M EXCEPT !.st = [@ EXCEPT ![dst] = InplaceStorage(r.obj),
                                    ![src] = DeadStorage],
                   !.moved = @ + 1,
                   !.faults = @ \cup r.fault]
    ELSE [M EXCEPT !.st = [@ EXCEPT ![dst] = PtrStorage(r.addr)],
                   !.moved = @ + 1, !.allocated = @ + 1, !.freed = @ + 1,
                   !.faults = @ \cup r.fault]

m_move(vt, M, dst, src, r) ==
    IF vt = null_vtable THEN M
    ELSE IF vt \notin CallableTypes THEN [M EXCEPT !.faults = @ \cup {"null_deref"}]
    ELSE IF StoredInline(vt)
    THEN \* new(&dst) Callable{ std::move(src) }; src.~Callable();
         \* the moved-from counter holds nullptr, so its destructor releases nothing
         [M EXCEPT !.st = [@ EXCEPT ![dst] = InplaceStorage(r.obj),
                                    ![src] = DeadStorage],
                   !.moved = @ + 1,
                   !.faults = @ \cup r.fault]
    ELSE \* dst_storage.m_allocated = src_storage.m_allocated;
         [M EXCEPT !.st = [@ EXCEPT ![dst] = PtrStorage(r.addr)],
                   !.faults = @ \cup r.fault]

\* m_copy of the vtable vt: copy-construct dst from src.  Both branches read
\* the source through reinterpret_cast<const Callable&>(src_storage.m_inplace).
m_copy_reads(vt, M, src) ==
    IF vt \notin CallableTypes THEN NoRead
    ELSE ReadAs(vt, M.st[src])

\* An m_copy whose heap branch copies the allocated pointer instead of the
\* payload.
m_copy_shallow(vt, M, dst, src, r) ==
    IF vt = null_vtable THEN M
    ELSE IF vt \notin CallableTypes THEN [M EXCEPT !.faults = @ \cup {"null_deref"}]
    ELSE IF StoredInline(vt)
    THEN [Bump(M, r.obj, 1) EXCEPT
                   !.st = [@ EXCEPT ![dst] = InplaceStorage(r.obj)],
                   !.faults = @ \cup r.fault]
    ELSE [M EXCEPT !.st = [@ EXCEPT ![dst] = M.st[src]]]

m_copy(vt, M, dst, src, r) ==
    IF vt = null_vtable THEN M
    ELSE IF vt \notin CallableTypes THEN [M EXCEPT !.faults = @ \cup {"null_deref"}]
    ELSE IF StoredInline(vt)
    THEN \* new(&dst_storage.m_inplace) Callable{ ...src_storage.m_inplace };
         [Bump(M, r.obj, 1) EXCEPT
                   !.st = [@ EXCEPT ![dst] = InplaceStorage(r.obj)],
                   !.faults = @ \cup r.fault]
    ELSE \* dst_storage.m_allocated = new Callable{ ...src_storage.m_inplace };
         IF FreeAddrs(M.heap) = {} THEN [M EXCEPT !.faults = @ \cup {"bad_alloc"}]
         ELSE [Bump(M, r.obj, 1) EXCEPT
                        !.allocated = @ + 1,
                        !.heap = [@ EXCEPT ![Alloc(M.heap)] = r.obj],
                        !.st = [@ EXCEPT ![dst] = PtrStorage(Alloc(M.heap))],
                        !.faults = @ \cup r.fault]

\* m_call of the vtable vt: the payload stores its argument and returns
\* argument + addend.
m_call_reads(vt, M, s) ==
    IF vt \notin CallableTypes THEN NoRead
    ELSE IF StoredInline(vt) THEN ReadAs(vt, M.st[s])
    ELSE Deref(vt, M.heap, M.st[s])

\* An m_call that invokes the payload and then destroys it, as a one-shot
\* wrapper would.
m_call_consuming(vt, M, s, arg, r) ==
    IF vt \notin CallableTypes THEN [M EXCEPT !.faults = @ \cup {"null_deref"}]
    ELSE IF r.fault # {} THEN [M EXCEPT !.faults = @ \cup r.fault]
    ELSE IF StoredInline(vt)
    THEN [M EXCEPT !.st = [@ EXCEPT ![s] = DeadStorage],
                   !.invoked = @ + 1]
    ELSE [M EXCEPT !.heap = [@ EXCEPT ![r.addr] = NoObj],
                   !.invoked = @ + 1]

\* An m_call that returns without invoking the payload.
m_call_skipped(vt, M, s, arg, r) ==
    IF vt \notin CallableTypes THEN [M EXCEPT !.faults = @ \cup {"null_deref"}]
    ELSE IF r.fault # {} THEN [M EXCEPT !.faults = @ \cup r.fault]
    ELSE M

m_call(vt, M, s, arg, r) ==
    IF vt \notin CallableTypes THEN [M EXCEPT !.faults = @ \cup {"null_deref"}]
    ELSE IF r.fault # {} THEN [M EXCEPT !.faults = @ \cup r.fault]
    ELSE IF StoredInline(vt)
    THEN [M EXCEPT !.st = [@ EXCEPT ![s] = InplaceStorage([r.obj EXCEPT !.val = arg])],
                   !.invoked = @ + 1]
    ELSE [M EXCEPT !.heap = [@ EXCEPT ![r.addr] = [r.obj EXCEPT !.val = arg]],
                   !.invoked = @ + 1]

m_call_result(vt, arg) == arg + Addend(vt)

\* Placement of a freshly bound callable of type T capturing counter(&r):
\* new(&m_storage.m_inplace) T{...} or m_storage.m_allocated = new T{...}.
Emplace(T, M, s, r) ==
    IF StoredInline(T)
    THEN [Bump(M, Obj(T, r, 0), 1) EXCEPT
                   !.st = [@ EXCEPT ![s] = InplaceStorage(Obj(T, r, 0))]]
    ELSE IF FreeAddrs(M.heap) = {} THEN [M EXCEPT !.faults = @ \cup {"bad_alloc"}]
    ELSE [Bump(M, Obj(T, r, 0), 1) EXCEPT
                   !.allocated = @ + 1,
                   !.heap = [@ EXCEPT ![Alloc(M.heap)] = Obj(T, r, 0)],
                   !.st = [@ EXCEPT ![s] = PtrStorage(Alloc(M.heap))]]

\* ------------------------------------------------------------------ state
Op(op, self, other, ret) ==
    [op |-> op, self |-> self, other |-> other, ret |-> ret, released |-> 0,
     allocated |-> 0, freed |-> 0, invoked |-> 0, moved |-> 0,
     exit |-> "returned"]

\* ------------------------------------------------- non-owning wrappers
NonOwning == {"function_ptr", "function_ref"}
Funcs == 1..MaxFunc
Locals == 1..MaxLocal

\* Values of the void* m_target: memory outside a wrapper's lifetime, the
\* null pointer, the address of the free function f, the address of the
\* client's local variable in stack slot s.
RawTarget == [seg |-> "raw", at |-> 0]
NullTarget == [seg |-> "null", at |-> 0]
CodeAddr(f) == [seg |-> "code", at |-> f]
StackAddr(s) == [seg |-> "stack", at |-> s]

\* A local variable of the client: a function pointer holding &f or a functor
\* object behaving as f; its bytes stay as they are after its scope has ended.
NoLocal == [k |-> "raw", f |-> 0, live |-> FALSE]
Local(k, f) == [k |-> k, f |-> f, live |-> TRUE]

\* The wrappers and the client's locals before any of them is created.
NoWrappers ==
    /\ m_target = [w \in Cont |-> RawTarget]
    /\ m_invoke_target = [w \in Cont |-> "raw"]
    /\ locals = [s \in Locals |-> NoLocal]

\* ------------------------------------------------------ static tables
Threads == 1..MaxThread
\* The function-local statics: null_vtable()'s instance and the instance of
\* callable_vtable<T>() for a payload type.
Statics == {null_vtable, callable_vtable("large")}

\* No thread has yet entered null_vtable() or callable_vtable<T>().
NoStatics ==
    /\ guard = [T \in Statics |-> "uninitialised"]
    /\ instance = [T \in Statics |-> [members |-> 0, constructions |-> 0]]
    /\ thread = [t \in Threads |-> [pc |-> "idle", T |-> null_vtable,
                                    ref |-> "none"]]

Init ==
    /\ variant \in Variants
    /\ alive = [c \in Cont |-> FALSE]
    /\ m_vtable = [c \in Cont |-> Indeterminate]
    /\ m_storage = [c \in Cont |-> RawStorage]
    /\ heap = [a \in Addrs |-> NoObj]
    /\ count = [r \in Resources |-> 0]
    /\ faults = {}
    /\ last = Op("init", 0, 0, 0)
    \* the closures bound under Spec satisfy every binding check whatever
    \* the signature, and no empty container is invoked: one signature and
    \* one build stand for all
    /\ NoExcept = FALSE
    /\ NDEBUG = TRUE
    /\ NoWrappers
    /\ NoStatics

\* The process has ended: a failed assert() has called abort(), or an
\* exception has left a noexcept function and std::terminate() was called.
Halted == last.exit \in {"abort", "terminate"}

\* Write the machine back, with the new vtable pointers and lifetimes.
Commit(M, vt, al, l) ==
    /\ ~Halted
    /\ variant \in Variants
    /\ \A a \in Addrs : M.heap[a].skew \in (0 - MaxSkew)..MaxSkew
    /\ m_storage' = [c \in Cont |-> IF al[c] THEN M.st[c] ELSE RawStorage]
    /\ heap' = M.heap
    /\ count' = M.count
    /\ faults' = M.faults
    /\ m_vtable' = vt
    /\ alive' = al
    /\ last' = [l EXCEPT !.released = M.released,
                          !.allocated = M.allocated, !.freed = M.freed,
                          !.invoked = M.invoked, !.moved = M.moved]
    /\ UNCHANGED <<variant, NoExcept, NDEBUG>>
    /\ UNCHANGED <<m_target, m_invoke_target, locals, guard, instance, thread>>

\* A constructor that leaves the table pointer null instead of binding the
\* empty table.
DefaultCtor_nullptr(c) ==
    /\ ~alive[c]
    /\ Commit(Machine, [m_vtable EXCEPT ![c] = nullptr],
              [alive EXCEPT ![c] = TRUE], Op("default_ctor", c, 0, 0))

\* ------------------------------------------------------------------ constructors
\* move_only_function() noexcept : m_vtable{ &null_vtable() }
DefaultCtor(c) ==
    /\ ~alive[c]
    /\ Commit(Machine, [m_vtable EXCEPT ![c] = null_vtable],
              [alive EXCEPT ![c] = TRUE], Op("default_ctor", c, 0, 0))

\* move_only_function(const std::nullptr_t) noexcept : m_vtable{ &null_vtable() }
NullCtor(c) ==
    /\ ~alive[c]
    /\ Commit(Machine, [m_vtable EXCEPT ![c] = null_vtable],
              [alive EXCEPT ![c] = TRUE], Op("nullptr_ctor", c, 0, 0))

\* A move constructor that copies the table pointer and leaves the source's
\* in place.
MoveCtor_noreset(c, o) ==
    /\ ~alive[c] /\ alive[o]
    /\ LET vt == [m_vtable EXCEPT ![c] = m_vtable[o]]
       IN \E r1 \in m_move_reads(vt[c], Machine, o) :
            Commit(m_move(vt[c], Machine, c, o, r1), vt,
                   [alive EXCEPT ![c] = TRUE], Op("move_ctor", c, o, 0))

\* move_only_function(move_only_function&& other) noexcept
\*   : m_vtable{ std::exchange(other.m_vtable, &null_vtable()) }
\*   { m_vtable->m_move(m_storage, other.m_storage); }
MoveCtor(c, o) ==
    /\ ~alive[c] /\ alive[o]
    /\ LET vt == [m_vtable EXCEPT ![c] = m_vtable[o], ![o] = null_vtable]
       IN \E r1 \in m_move_reads(vt[c], Machine, o) :
            Commit(m_move(vt[c], Machine, c, o, r1), vt,
                   [alive EXCEPT ![c] = TRUE], Op("move_ctor", c, o, 0))

\* copyable_function(const copyable_function& other)
\*   : m_vtable{ other.m_vtable } { m_vtable->m_copy(m_storage, other.m_storage); }
CopyCtor(c, o) ==
    /\ Copyable(variant)
    /\ ~alive[c] /\ alive[o]
    /\ LET vt == [m_vtable EXCEPT ![c] = m_vtable[o]]
       IN \E r1 \in m_copy_reads(vt[c], Machine, o) :
            Commit(m_copy(vt[c], Machine, c, o, r1), vt,
                   [alive EXCEPT ![c] = TRUE], Op("copy_ctor", c, o, 0))

\* template <typename Callable> move_only_function(Callable&& callable)
\*   m_vtable = &callable_vtable<callable_type>(); construct into m_storage
CallableCtor(c, T, r) ==
    /\ ~alive[c]
    /\ Bindable(T)
    /\ Commit(Emplace(T, Machine, c, r),
              [m_vtable EXCEPT ![c] = callable_vtable(T)],
              [alive EXCEPT ![c] = TRUE], Op("callable_ctor", c, 0, 0))

\* ~move_only_function() { m_vtable->m_dtor(m_storage); }
Dtor(c) ==
    /\ alive[c]
    /\ \E r1 \in m_dtor_reads(m_vtable[c], Machine, c) :
         Commit(m_dtor(m_vtable[c], Machine, c, r1),
                [m_vtable EXCEPT ![c] = Indeterminate],
                [alive EXCEPT ![c] = FALSE], Op("dtor", c, 0, 0))

\* ------------------------------------------------------------------ assignment
\* A move assignment that copies the source's table pointer without the
\* exchange that resets it.
MoveAssign_noexchange(c, o) ==
    /\ alive[c] /\ alive[o]
    /\ c # o
    /\ LET vt == [m_vtable EXCEPT ![c] = m_vtable[o]]
       IN \E r1 \in m_dtor_reads(m_vtable[c], Machine, c) :
          LET M1 == m_dtor(m_vtable[c], Machine, c, r1)
          IN \E r2 \in m_move_reads(vt[c], M1, o) :
               Commit(m_move(vt[c], M1, c, o, r2), vt, alive,
                      Op("move_assign", c, o, 0))

\* move_only_function& operator=(move_only_function&& other) noexcept
\*   assert(this != &other); m_dtor; m_vtable = exchange(other.m_vtable, null); m_move
MoveAssign(c, o) ==
    /\ alive[c] /\ alive[o]
    /\ c # o
    /\ LET vt == [m_vtable EXCEPT ![c] = m_vtable[o], ![o] = null_vtable]
       IN \E r1 \in m_dtor_reads(m_vtable[c], Machine, c) :
          LET M1 == m_dtor(m_vtable[c], Machine, c, r1)
          IN \E r2 \in m_move_reads(vt[c], M1, o) :
               Commit(m_move(vt[c], M1, c, o, r2), vt, alive,
                      Op("move_assign", c, o, 0))

\* A self move assignment whose test of this != &other is part of every
\* build.
SelfMoveAssign_checked(c) ==
    /\ alive[c]
    /\ Commit(Machine, m_vtable, alive,
              [Op("move_assign", c, c, 0) EXCEPT !.exit = "abort"])

\* c = std::move(c):
\*   assert(this != &other); m_dtor; m_vtable = exchange(other.m_vtable, null); m_move
\* The failed assert calls abort() unless the build defines NDEBUG.  Without
\* the assert the payload is destroyed, the exchange writes the empty table
\* into m_vtable and the assignment of its result writes the old table back,
\* and that table's m_move moves from the storage onto itself.
SelfMoveAssign(c) ==
    /\ alive[c]
    /\ IF ~NDEBUG
       THEN Commit(Machine, m_vtable, alive,
                   [Op("move_assign", c, c, 0) EXCEPT !.exit = "abort"])
       ELSE \E r1 \in m_dtor_reads(m_vtable[c], Machine, c) :
            LET M1 == m_dtor(m_vtable[c], Machine, c, r1)
            IN \E r2 \in m_move_reads(m_vtable[c], M1, c) :
                 Commit(m_move(m_vtable[c], M1, c, c, r2), m_vtable, alive,
                        Op("move_assign", c, c, 0))

\* copyable_function& operator=(const copyable_function& other)
\*   m_vtable->m_dtor(m_storage); m_vtable->m_copy(m_storage, other.m_storage);
CopyAssign(c, o) ==
    /\ Copyable(variant)
    /\ alive[c] /\ alive[o]
    /\ \E r1 \in m_dtor_reads(m_vtable[c], Machine, c) :
       LET M1 == m_dtor(m_vtable[c], Machine, c, r1)
       IN \E r2 \in m_copy_reads(m_vtable[c], M1, o) :
            Commit(m_copy(m_vtable[c], M1, c, o, r2), m_vtable, alive,
                   Op("copy_assign", c, o, 0))

\* template <typename Callable> move_only_function& operator=(Callable&& callable) noexcept
\*   m_dtor; m_vtable = &callable_vtable<callable_type>(); construct into m_storage
CallableAssign(c, T, r) ==
    /\ alive[c]
    /\ Bindable(T)
    /\ \E r1 \in m_dtor_reads(m_vtable[c], Machine, c) :
         Commit(Emplace(T, m_dtor(m_vtable[c], Machine, c, r1), c, r),
                [m_vtable EXCEPT ![c] = callable_vtable(T)], alive,
                Op("callable_assign", c, 0, 0))

\* Whether constructing the payload from the callable can fail: the
\* new-expression of a heap-stored payload can throw std::bad_alloc, and the
\* copy or move constructor that builds the payload from the argument can
\* throw when the type's is not noexcept.
MayFail(T) == ~StoredInline(T) \/ ~NothrowMove(T) \/ ~NothrowCopy(T)

\* The callable constructor when the construction of the payload throws:
\*   m_vtable = &callable_vtable<callable_type>(); new ... throws
\* The exception leaves the constructor: the container's lifetime never
\* begins and its members are gone with it.
CallableCtorThrows(c, T) ==
    /\ ~alive[c]
    /\ Bindable(T) /\ MayFail(T)
    /\ Commit(Machine, m_vtable, alive,
              [Op("callable_ctor", c, 0, 0) EXCEPT !.exit = "exception"])

\* A callable assignment that, when the construction of the payload throws,
\* has not yet touched the table pointer.
CallableAssignThrows_tablelast(c, T) ==
    /\ alive[c]
    /\ Bindable(T) /\ MayFail(T)
    /\ \E r1 \in m_dtor_reads(m_vtable[c], Machine, c) :
         Commit(m_dtor(m_vtable[c], Machine, c, r1), m_vtable, alive,
                [Op("callable_assign", c, 0, 0) EXCEPT !.exit = "terminate"])

\* A callable assignment that lets the exception of the payload construction
\* out to its caller, as an operator= without noexcept would.
CallableAssignThrows_propagating(c, T) ==
    /\ alive[c]
    /\ Bindable(T) /\ MayFail(T)
    /\ \E r1 \in m_dtor_reads(m_vtable[c], Machine, c) :
         Commit(m_dtor(m_vtable[c], Machine, c, r1),
                [m_vtable EXCEPT ![c] = callable_vtable(T)], alive,
                [Op("callable_assign", c, 0, 0) EXCEPT !.exit = "exception"])

\* The callable assignment when the construction of the payload throws:
\*   m_dtor; m_vtable = &callable_vtable<callable_type>(); new ... throws
\* The exception meets the noexcept of operator= and std::terminate() ends
\* the process with the old payload destroyed and the new table installed.
CallableAssignThrows(c, T) ==
    /\ alive[c]
    /\ Bindable(T) /\ MayFail(T)
    /\ \E r1 \in m_dtor_reads(m_vtable[c], Machine, c) :
         Commit(m_dtor(m_vtable[c], Machine, c, r1),
                [m_vtable EXCEPT ![c] = callable_vtable(T)], alive,
                [Op("callable_assign", c, 0, 0) EXCEPT !.exit = "terminate"])

\* Copy-constructing a payload of type T can fail: its copy constructor may
\* throw, or it is heap-stored and the allocation may.
CopyMayFail(T) == T \in CallableTypes /\ (~NothrowCopy(T) \/ ~StoredInline(T))

\* The copy assignment b = a when m_copy throws:
\*   m_vtable->m_dtor(m_storage); m_vtable->m_copy(m_storage, other.m_storage);
\* b's payload has been destroyed, nothing was constructed in its place, and
\* the exception leaves operator=, which is not noexcept, with b's table
\* pointer as it was.
CopyAssignThrows(c, o) ==
    /\ Copyable(variant)
    /\ alive[c] /\ alive[o] /\ c # o
    /\ CopyMayFail(m_vtable[c])
    /\ \E r1 \in m_dtor_reads(m_vtable[c], Machine, c) :
         Commit(m_dtor(m_vtable[c], Machine, c, r1), m_vtable, alive,
                [Op("copy_assign", c, o, 0) EXCEPT !.exit = "exception"])

\* A null assignment that installs the empty table without destroying the
\* payload.
NullAssign_nodtor(c) ==
    /\ alive[c]
    /\ Commit(Machine, [m_vtable EXCEPT ![c] = null_vtable], alive,
              Op("nullptr_assign", c, 0, 0))

\* A null assignment that destroys the payload and keeps the table.
NullAssign_keep(c) ==
    /\ alive[c]
    /\ \E r1 \in m_dtor_reads(m_vtable[c], Machine, c) :
         Commit(m_dtor(m_vtable[c], Machine, c, r1), m_vtable, alive,
                Op("nullptr_assign", c, 0, 0))

\* move_only_function& operator=(const std::nullptr_t) noexcept
\*   m_dtor; m_vtable = &null_vtable();
NullAssign(c) ==
    /\ alive[c]
    /\ \E r1 \in m_dtor_reads(m_vtable[c], Machine, c) :
         Commit(m_dtor(m_vtable[c], Machine, c, r1),
                [m_vtable EXCEPT ![c] = null_vtable], alive,
                Op("nullptr_assign", c, 0, 0))

\* ------------------------------------------------------------------ call and swap
\* ResultType operator()(OperatorArgs&&... args) const
\*   assert(m_vtable != &null_vtable()); return m_vtable->m_call(m_storage, args...);
Call(c, arg) ==
    /\ alive[c]
    /\ m_vtable[c] # null_vtable
    /\ \E r1 \in m_call_reads(m_vtable[c], Machine, c) :
         Commit(m_call(m_vtable[c], Machine, c, arg, r1), m_vtable, alive,
                Op("call", c, 0, m_call_result(m_vtable[c], arg)))

\* operator() on a container whose payload, in its own body, invokes the
\* same container with the argument inner before it stores its own argument:
\* the nested operator() reads m_vtable and m_storage as the outer one did
\* and runs m_call to completion inside the outer activation.
CallReentrant(c, arg, inner) ==
    /\ alive[c]
    /\ m_vtable[c] # null_vtable
    /\ \E r1 \in m_call_reads(m_vtable[c], Machine, c) :
       LET M1 == m_call(m_vtable[c], Machine, c, inner, r1)
       IN \E r2 \in m_call_reads(m_vtable[c], M1, c) :
            Commit(m_call(m_vtable[c], M1, c, arg, r2), m_vtable, alive,
                   Op("reentrant_call", c, 0, m_call_result(m_vtable[c], arg)))

\* An empty table whose m_call throws whatever the signature.
null_m_call_throwing == "bad_function_call"

\* m_call of the vtable built for an empty container:
\*   if constexpr (NoExcept) std::terminate(); else throw std::bad_function_call();
null_m_call == IF NoExcept THEN "terminate" ELSE "bad_function_call"

\* operator() on a container that holds no payload:
\*   assert(m_vtable != &null_vtable()); return m_vtable->m_call(m_storage, ...);
\* The failed assert calls abort() unless the build defines NDEBUG; otherwise
\* the empty table's m_call runs.  Nothing else is touched.
CallEmpty(c, arg) ==
    /\ alive[c]
    /\ m_vtable[c] = null_vtable
    /\ Commit(Machine, m_vtable, alive,
              [Op("call", c, 0, 0) EXCEPT
                  !.exit = IF ~NDEBUG THEN "abort" ELSE null_m_call])

\* A swap that moves the storages and leaves the table pointers in place.
Swap_keeptables(c, o) ==
    /\ alive[c] /\ alive[o]
    /\ \E r1 \in m_move_reads(m_vtable[c], Machine, c) :
       LET M1 == m_move(m_vtable[c], Machine, Temp, c, r1)
       IN \E r2 \in m_move_reads(m_vtable[o], M1, o) :
          LET M2 == m_move(m_vtable[o], M1, c, o, r2)
          IN \E r3 \in m_move_reads(m_vtable[c], M2, Temp) :
               Commit(m_move(m_vtable[c], M2, o, Temp, r3), m_vtable,
                      alive, Op("swap", c, o, 0))

\* A swap whose third move goes through the other container's table.
Swap_wrongtable(c, o) ==
    /\ alive[c] /\ alive[o]
    /\ \E r1 \in m_move_reads(m_vtable[c], Machine, c) :
       LET M1 == m_move(m_vtable[c], Machine, Temp, c, r1)
       IN \E r2 \in m_move_reads(m_vtable[o], M1, o) :
          LET M2 == m_move(m_vtable[o], M1, c, o, r2)
          IN \E r3 \in m_move_reads(m_vtable[o], M2, Temp) :
               Commit(m_move(m_vtable[o], M2, o, Temp, r3),
                      [m_vtable EXCEPT ![c] = m_vtable[o], ![o] = m_vtable[c]],
                      alive, Op("swap", c, o, 0))

\* void swap(move_only_function& other) noexcept
\*   m_vtable->m_move(temp, m_storage);
\*   other.m_vtable->m_move(m_storage, other.m_storage);
\*   m_vtable->m_move(other.m_storage, temp);
\*   std::swap(m_vtable, other.m_vtable);
Swap(c, o) ==
    /\ alive[c] /\ alive[o]
    /\ \E r1 \in m_move_reads(m_vtable[c], Machine, c) :
       LET M1 == m_move(m_vtable[c], Machine, Temp, c, r1)
       IN \E r2 \in m_move_reads(m_vtable[o], M1, o) :
          LET M2 == m_move(m_vtable[o], M1, c, o, r2)
          IN \E r3 \in m_move_reads(m_vtable[c], M2, Temp) :
               Commit(m_move(m_vtable[c], M2, o, Temp, r3),
                      [m_vtable EXCEPT ![c] = m_vtable[o], ![o] = m_vtable[c]],
                      alive, Op("swap", c, o, 0))

\* ------------------------------------------------------------------ specification
Next ==
    \/ \E c \in Cont : DefaultCtor(c)
    \/ \E c \in Cont : NullCtor(c)
    \/ \E c, o \in Cont : MoveCtor(c, o)
    \/ \E c, o \in Cont : CopyCtor(c, o)
    \/ \E c \in Cont, T \in PayloadTypes, r \in Resources : CallableCtor(c, T, r)
    \/ \E c \in Cont : Dtor(c)
    \/ \E c, o \in Cont : MoveAssign(c, o)
    \/ \E c, o \in Cont : CopyAssign(c, o)
    \/ \E c \in Cont, T \in PayloadTypes, r \in Resources : CallableAssign(c, T, r)
    \/ \E c \in Cont : NullAssign(c)
    \/ \E c \in Cont, arg \in Args : Call(c, arg)
    \/ \E c, o \in Cont : Swap(c, o)

Spec == Init /\ [][Next]_vars

\* ------------------------------------------------- wrapper operations
\* The callable expressions a client binds a wrapper to: the function f, the
\* temporary &f, a named function pointer variable, a named functor object.
Exprs == [e : {"function", "address_of"}, at : Funcs]
           \cup [e : {"pointer_variable", "functor"}, at : Locals]

\* The expression denotes something: a named variable is in scope and has
\* the type the expression says.
Denotes(x) ==
    CASE x.e = "pointer_variable" -> locals[x.at].live /\ locals[x.at].k = "fnptr"
      [] x.e = "functor" -> locals[x.at].live /\ locals[x.at].k = "functor"
      [] OTHER -> TRUE

\* The function the expression x designates when it is invoked.
Designates(x) == IF x.e \in {"function", "address_of"} THEN x.at
                 ELSE locals[x.at].f

\* The deduced template argument Callable of a forwarding reference
\* Callable&& bound to x: a temporary deduces the pointer type, every named
\* thing deduces an lvalue reference.
Deduced(x) == CASE x.e = "function" -> "R(&)(A)"
                [] x.e = "address_of" -> "R(*)(A)"
                [] x.e = "pointer_variable" -> "R(*&)(A)"
                [] OTHER -> "Functor&"

\* std::is_pointer_v<Callable>: false for every reference type.
is_pointer_v(Callable) == Callable = "R(*)(A)"

\* A trait that hands the deduced type back: the trampoline is then
\* instantiated for the callable itself, not for a pointer to it.
add_pointer_t_same(Callable) == Callable

\* std::add_pointer_t<Callable>: the pointer to the referred-to type.
add_pointer_t(Callable) == CASE Callable = "R(&)(A)" -> "R(*)(A)"
                             [] Callable = "R(*)(A)" -> "R(**)(A)"
                             [] Callable = "R(*&)(A)" -> "R(**)(A)"
                             [] OTHER -> "Functor*"

\* std::addressof(callable): a function's address, or the address of the
\* object the reference is bound to.
addressof(x) == IF x.e = "function" THEN CodeAddr(x.at) ELSE StackAddr(x.at)

\* The value of a function pointer expression, reinterpret_cast to void*.
PointerValue(x) == CodeAddr(Designates(x))

\* The free functions and functors, applied to an argument.
invoke(f, arg) == arg + f

\* Every outcome of calling through a pointer that designates no function:
\* the call lands in one of the functions or nowhere.
Wild(arg, fault) ==
    {[ret |-> invoke(f, arg), fault |-> {fault}] : f \in Funcs}
        \cup {[ret |-> Corrupt, fault |-> {fault}]}

\* function_ptr_invoke_target<Callable> and function_ref_invoke_target<Callable>
\* applied to target: std::invoke(*reinterpret_cast<Callable>(target), args...).
invoke_target(Callable, target, arg) ==
    IF Callable \notin {"R(*)(A)", "R(**)(A)", "Functor*"}
    THEN Wild(arg, "indeterminate_call")
    ELSE IF target.seg = "null" THEN Wild(arg, "null_deref")
    ELSE IF Callable = "R(*)(A)"
    THEN (IF target.seg = "code"
          THEN {[ret |-> invoke(target.at, arg), fault |-> {}]}
          ELSE Wild(arg, "bad_cast"))
    ELSE IF target.seg # "stack" THEN Wild(arg, "bad_cast")
    ELSE IF ~locals[target.at].live THEN Wild(arg, "dangling")
    ELSE IF locals[target.at].k # (IF Callable = "R(**)(A)" THEN "fnptr" ELSE "functor")
    THEN Wild(arg, "bad_cast")
    ELSE {[ret |-> invoke(locals[target.at].f, arg), fault |-> {}]}

\* The wrapper w is within its lifetime.
Constructed(w) == m_target[w] # RawTarget

\* Write the wrappers and the client's locals back.
Seat(mt, mi, lc, fl, l) ==
    /\ ~Halted
    /\ variant \in NonOwning
    /\ m_target' = mt
    /\ m_invoke_target' = mi
    /\ locals' = lc
    /\ faults' = fl
    /\ last' = l
    /\ UNCHANGED <<variant, NoExcept, NDEBUG, alive, m_vtable, m_storage, heap,
                   count, guard, instance, thread>>

\* function_ptr::assign(Callable&&).
assign(x) ==
    IF is_pointer_v(Deduced(x))
    THEN [m_target |-> PointerValue(x), m_invoke_target |-> Deduced(x)]
    ELSE [m_target |-> addressof(x),
          m_invoke_target |-> add_pointer_t(Deduced(x))]

\* function_ptr() : m_target{ nullptr }; m_invoke_target is not initialised.
PtrDefaultCtor(w) ==
    /\ variant = "function_ptr"
    /\ ~Constructed(w)
    /\ Seat([m_target EXCEPT ![w] = NullTarget],
            [m_invoke_target EXCEPT ![w] = Indeterminate], locals, {},
            Op("ptr_default_ctor", w, 0, 0))

\* function_ptr(nullptr_t) : m_target{ nullptr }.
PtrNullCtor(w) ==
    /\ variant = "function_ptr"
    /\ ~Constructed(w)
    /\ Seat([m_target EXCEPT ![w] = NullTarget],
            [m_invoke_target EXCEPT ![w] = Indeterminate], locals, {},
            Op("ptr_null_ctor", w, 0, 0))

\* function_ptr(const function_ptr&) and function_ptr(function_ptr&&),
\* both defaulted: a memberwise copy.
PtrCopyCtor(w, o) ==
    /\ variant = "function_ptr"
    /\ w # o /\ ~Constructed(w) /\ Constructed(o)
    /\ Seat([m_target EXCEPT ![w] = m_target[o]],
            [m_invoke_target EXCEPT ![w] = m_invoke_target[o]], locals, {},
            Op("ptr_copy_ctor", w, o, 0))

\* function_ptr(Callable&&): assign(std::forward<Callable>(callable)).
PtrCallableCtor(w, x) ==
    /\ variant = "function_ptr"
    /\ ~Constructed(w) /\ Denotes(x)
    /\ Seat([m_target EXCEPT ![w] = assign(x).m_target],
            [m_invoke_target EXCEPT ![w] = assign(x).m_invoke_target],
            locals, {}, Op("ptr_ctor_" \o x.e, w, x.at, Designates(x)))

\* function_ptr& operator=(const function_ptr&) and operator=(function_ptr&&),
\* both defaulted.
PtrCopyAssign(w, o) ==
    /\ variant = "function_ptr"
    /\ Constructed(w) /\ Constructed(o)
    /\ Seat([m_target EXCEPT ![w] = m_target[o]],
            [m_invoke_target EXCEPT ![w] = m_invoke_target[o]], locals, {},
            Op("ptr_copy_assign", w, o, 0))

\* function_ptr& operator=(Callable&&).
PtrCallableAssign(w, x) ==
    /\ variant = "function_ptr"
    /\ Constructed(w) /\ Denotes(x)
    /\ Seat([m_target EXCEPT ![w] = assign(x).m_target],
            [m_invoke_target EXCEPT ![w] = assign(x).m_invoke_target],
            locals, {}, Op("ptr_assign_" \o x.e, w, x.at, Designates(x)))

\* A null assignment that leaves the target where it is.
PtrNullAssign_keep(w) ==
    /\ variant = "function_ptr"
    /\ Constructed(w)
    /\ Seat(m_target, m_invoke_target, locals, {},
            Op("ptr_null_assign", w, 0, 0))

\* function_ptr& operator=(nullptr_t): m_target = nullptr.
PtrNullAssign(w) ==
    /\ variant = "function_ptr"
    /\ Constructed(w)
    /\ Seat([m_target EXCEPT ![w] = NullTarget], m_invoke_target, locals, {},
            Op("ptr_null_assign", w, 0, 0))

\* function_ptr::operator(): assert(m_target != nullptr), then
\* m_invoke_target(m_target, args...).
PtrCall(w, arg) ==
    /\ variant = "function_ptr"
    /\ Constructed(w)
    /\ IF m_target[w] = NullTarget /\ ~NDEBUG
       THEN Seat(m_target, m_invoke_target, locals, {},
                 [Op("ptr_call", w, 0, 0) EXCEPT !.exit = "abort"])
       ELSE \E r \in invoke_target(m_invoke_target[w], m_target[w], arg) :
              Seat(m_target, m_invoke_target, locals, r.fault,
                   [Op("ptr_call", w, arg, r.ret) EXCEPT !.invoked = 1])

\* A swap that exchanges the targets and leaves the trampolines.
swap_members_targetonly(mt, mi, w, o) ==
    [m_target |-> [mt EXCEPT ![w] = mt[o], ![o] = mt[w]],
     m_invoke_target |-> mi]

\* std::swap(m_target, other.m_target);
\* std::swap(m_invoke_target, other.m_invoke_target);
swap_members(mt, mi, w, o) ==
    [m_target |-> [mt EXCEPT ![w] = mt[o], ![o] = mt[w]],
     m_invoke_target |-> [mi EXCEPT ![w] = mi[o], ![o] = mi[w]]]

\* function_ptr::swap(function_ptr&) and the friend swap(lhs, rhs).
PtrSwap(w, o) ==
    /\ variant = "function_ptr"
    /\ Constructed(w) /\ Constructed(o)
    /\ Seat(swap_members(m_target, m_invoke_target, w, o).m_target,
            swap_members(m_target, m_invoke_target, w, o).m_invoke_target,
            locals, {}, Op("ptr_swap", w, o, 0))

\* function_ref(const function_ref&) and function_ref(function_ref&&),
\* both defaulted.
RefCopyCtor(w, o) ==
    /\ variant = "function_ref"
    /\ w # o /\ ~Constructed(w) /\ Constructed(o)
    /\ Seat([m_target EXCEPT ![w] = m_target[o]],
            [m_invoke_target EXCEPT ![w] = m_invoke_target[o]], locals, {},
            Op("ref_copy_ctor", w, o, 0))

\* A function_ref constructor that also accepts null.
RefCallableCtor_nullable(w, x) ==
    /\ variant = "function_ref"
    /\ ~Constructed(w)
    /\ Seat([m_target EXCEPT ![w] = NullTarget],
            [m_invoke_target EXCEPT ![w] = add_pointer_t(Deduced(x))],
            locals, {}, Op("ref_ctor_" \o x.e, w, x.at, 0))

\* function_ref(Callable&&), enabled unless is_pointer_v<Callable>:
\* m_invoke_target{ &function_ref_invoke_target<add_pointer_t<Callable>> },
\* m_target{ addressof(callable) }.
RefCallableCtor(w, x) ==
    /\ variant = "function_ref"
    /\ ~Constructed(w) /\ Denotes(x)
    /\ ~is_pointer_v(Deduced(x))
    /\ Seat([m_target EXCEPT ![w] = addressof(x)],
            [m_invoke_target EXCEPT ![w] = add_pointer_t(Deduced(x))],
            locals, {}, Op("ref_ctor_" \o x.e, w, x.at, Designates(x)))

\* function_ref::operator(): m_invoke_target(m_target, args...).
RefCall(w, arg) ==
    /\ variant = "function_ref"
    /\ Constructed(w)
    /\ \E r \in invoke_target(m_invoke_target[w], m_target[w], arg) :
         Seat(m_target, m_invoke_target, locals, r.fault,
              [Op("ref_call", w, arg, r.ret) EXCEPT !.invoked = 1])

\* A destructor that ends the lifetime of the callable it points at, as an
\* owner's would.
WrapperDtor_destroying(w) ==
    /\ Constructed(w)
    /\ Seat([m_target EXCEPT ![w] = RawTarget],
            [m_invoke_target EXCEPT ![w] = "raw"],
            [s \in Locals |->
               IF m_target[w] = StackAddr(s)
               THEN [locals[s] EXCEPT !.live = FALSE] ELSE locals[s]], {},
            Op("wrapper_dtor", w, 0, 0))

\* The implicit destructor of either wrapper: its storage is raw again.
WrapperDtor(w) ==
    /\ Constructed(w)
    /\ Seat([m_target EXCEPT ![w] = RawTarget],
            [m_invoke_target EXCEPT ![w] = "raw"], locals, {},
            Op("wrapper_dtor", w, 0, 0))

\* The client declares a function pointer variable holding &f, or a functor
\* behaving as f, in the stack slot s; no wrapper still points into s.
Declare(s, k, f) ==
    /\ ~locals[s].live
    /\ \A w \in Cont : m_target[w] # StackAddr(s)
    /\ Seat(m_target, m_invoke_target, [locals EXCEPT ![s] = Local(k, f)], {},
            Op("declare_" \o k, 0, s, f))

\* The scope of the local variable in slot s ends; its bytes stay.
EndScope(s) ==
    /\ locals[s].live
    /\ Seat(m_target, m_invoke_target,
            [locals EXCEPT ![s] = [@ EXCEPT !.live = FALSE]], {},
            Op("end_scope", 0, s, 0))

\* The two non-owning wrappers, their client and both builds.
RefInit ==
    /\ variant \in NonOwning
    /\ alive = [c \in Cont |-> FALSE]
    /\ m_vtable = [c \in Cont |-> Indeterminate]
    /\ m_storage = [c \in Cont |-> RawStorage]
    /\ heap = [a \in Addrs |-> NoObj]
    /\ count = [r \in Resources |-> 0]
    /\ faults = {}
    /\ last = Op("init", 0, 0, 0)
    /\ NoExcept = FALSE
    /\ NDEBUG \in BOOLEAN
    /\ NoWrappers
    /\ NoStatics

RefNext ==
    \/ \E w \in Cont : PtrDefaultCtor(w)
    \/ \E w \in Cont : PtrNullCtor(w)
    \/ \E w, o \in Cont : PtrCopyCtor(w, o)
    \/ \E w \in Cont, x \in Exprs : PtrCallableCtor(w, x)
    \/ \E w, o \in Cont : PtrCopyAssign(w, o)
    \/ \E w \in Cont, x \in Exprs : PtrCallableAssign(w, x)
    \/ \E w \in Cont : PtrNullAssign(w)
    \/ \E w \in Cont, arg \in Args : PtrCall(w, arg)
    \/ \E w, o \in Cont : PtrSwap(w, o)
    \/ \E w, o \in Cont : RefCopyCtor(w, o)
    \/ \E w \in Cont, x \in Exprs : RefCallableCtor(w, x)
    \/ \E w \in Cont, arg \in Args : RefCall(w, arg)
    \/ \E w \in Cont : WrapperDtor(w)
    \/ \E s \in Locals, k \in {"fnptr", "functor"}, f \in Funcs : Declare(s, k, f)
    \/ \E s \in Locals : EndScope(s)

RefSpec == RefInit /\ [][RefNext]_vars

\* ------------------------------------------------ static table accessors
\* The members a table has: m_call, m_dtor, m_move, and m_copy in the
\* copyable variants.
NMembers == IF Copyable(variant) THEN 4 ELSE 3

\* Write the statics and the threads back.
Publish(g, i, th) ==
    /\ variant \in Variants
    /\ guard' = g
    /\ instance' = i
    /\ thread' = th
    /\ UNCHANGED <<variant, alive, m_vtable, m_storage, heap, count, faults,
                   last, NoExcept, NDEBUG, m_target, m_invoke_target, locals>>

\* Thread t calls null_vtable() or callable_vtable<T>(), as every
\* constructor and every callable assignment does.
StaticEnter(t, T) ==
    /\ thread[t].pc = "idle"
    /\ Publish(guard, instance, [thread EXCEPT ![t].pc = "guard", ![t].T = T])

\* An accessor that does not wait for an initialisation in progress.
StaticAcquire_nowait(t) ==
    LET T == thread[t].T
    IN /\ thread[t].pc = "guard"
       /\ \/ /\ guard[T] \in {"done", "running"}
             /\ Publish(guard, instance, [thread EXCEPT ![t].pc = "return"])
          \/ /\ guard[T] = "uninitialised"
             /\ Publish([guard EXCEPT ![T] = "running"],
                        [instance EXCEPT ![T].constructions = @ + 1],
                        [thread EXCEPT ![t].pc = "construct"])

\* Control passes through `static const vtable_type instance{...}`: the
\* first thread to arrive initialises the object, a thread that arrives
\* while the initialisation runs waits for its completion, and a thread
\* that arrives afterwards skips the declaration.
StaticAcquire(t) ==
    LET T == thread[t].T
    IN /\ thread[t].pc = "guard"
       /\ \/ /\ guard[T] = "done"
             /\ Publish(guard, instance, [thread EXCEPT ![t].pc = "return"])
          \/ /\ guard[T] = "uninitialised"
             /\ Publish([guard EXCEPT ![T] = "running"],
                        [instance EXCEPT ![T].constructions = @ + 1],
                        [thread EXCEPT ![t].pc = "construct"])

\* The constructor of the table initialises its next member.
StaticInitMember(t) ==
    LET T == thread[t].T
    IN /\ thread[t].pc = "construct"
       /\ instance[T].members < NMembers
       /\ Publish(guard, [instance EXCEPT ![T].members = @ + 1], thread)

\* The constructor has returned: the initialisation is complete.
StaticRelease(t) ==
    LET T == thread[t].T
    IN /\ thread[t].pc = "construct"
       /\ instance[T].members = NMembers
       /\ Publish([guard EXCEPT ![T] = "done"], instance,
                  [thread EXCEPT ![t].pc = "return"])

\* return instance; the caller stores the address in m_vtable.
StaticReturn(t) ==
    /\ thread[t].pc = "return"
    /\ Publish(guard, instance,
               [thread EXCEPT ![t].pc = "idle", ![t].ref = thread[t].T])

\* Threads that bind callables and create empty containers concurrently.
TableInit ==
    /\ variant \in Variants
    /\ alive = [c \in Cont |-> FALSE]
    /\ m_vtable = [c \in Cont |-> Indeterminate]
    /\ m_storage = [c \in Cont |-> RawStorage]
    /\ heap = [a \in Addrs |-> NoObj]
    /\ count = [r \in Resources |-> 0]
    /\ faults = {}
    /\ last = Op("init", 0, 0, 0)
    /\ NoExcept = FALSE
    /\ NDEBUG = TRUE
    /\ NoWrappers
    /\ NoStatics

TableNext ==
    \/ \E t \in Threads, T \in Statics : StaticEnter(t, T)
    \/ \E t \in Threads : StaticAcquire(t)
    \/ \E t \in Threads : StaticInitMember(t)
    \/ \E t \in Threads : StaticRelease(t)
    \/ \E t \in Threads : StaticReturn(t)

TableSpec == TableInit /\ [][TableNext]_vars

\* ------------------------------------------------------------------ observers
\* The containers under both signatures and both builds, bound to every
\* callable type and invoked whether or not they hold a payload; copies and
\* self-swap are left to Spec.
SigInit ==
    /\ variant \in Variants
    /\ alive = [c \in Cont |-> FALSE]
    /\ m_vtable = [c \in Cont |-> Indeterminate]
    /\ m_storage = [c \in Cont |-> RawStorage]
    /\ heap = [a \in Addrs |-> NoObj]
    /\ count = [r \in Resources |-> 0]
    /\ faults = {}
    /\ last = Op("init", 0, 0, 0)
    /\ NoExcept \in BOOLEAN
    /\ NDEBUG \in BOOLEAN
    /\ NoWrappers
    /\ NoStatics

SigNext ==
    \/ \E c \in Cont : DefaultCtor(c)
    \/ \E c \in Cont : NullCtor(c)
    \/ \E c, o \in Cont : MoveCtor(c, o)
    \/ \E c \in Cont, T \in CallableTypes, r \in Resources : CallableCtor(c, T, r)
    \/ \E c \in Cont : Dtor(c)
    \/ \E c, o \in Cont : MoveAssign(c, o)
    \/ \E c \in Cont, T \in CallableTypes, r \in Resources : CallableAssign(c, T, r)
    \/ \E c \in Cont : NullAssign(c)
    \/ \E c \in Cont, arg \in Args : Call(c, arg)
    \/ \E c \in Cont, arg \in Args : CallEmpty(c, arg)
    \/ \E c, o \in Cont : c # o /\ Swap(c, o)

SigSpec == SigInit /\ [][SigNext]_vars

\* SigSpec with payloads that invoke their own container.
NestNext ==
    \/ SigNext
    \/ \E c \in Cont, arg \in Args, inner \in Args : CallReentrant(c, arg, inner)

NestSpec == SigInit /\ [][NestNext]_vars

\* SigSpec with bindings whose payload construction fails: the constructor
\* of the callable throws, or the allocation of a heap-stored payload does.
FailNext ==
    \/ SigNext
    \/ \E c \in Cont, T \in CallableTypes : CallableCtorThrows(c, T)
    \/ \E c \in Cont, T \in CallableTypes : CallableAssignThrows(c, T)

FailSpec == SigInit /\ [][FailNext]_vars

\* No operation so far had undefined behaviour.
Defined == faults = {}

\* The copyable variants under construction, binding, invocation, copy
\* assignments whose payload copy fails, reassignment and destruction.
\* A behaviour is followed up to its first undefined operation.
CopyFailInit ==
    /\ Init
    /\ Copyable(variant)

CopyFailNext ==
    \/ \E c \in Cont : Defined /\ DefaultCtor(c)
    \/ \E c \in Cont, T \in CallableTypes, r \in Resources :
         Defined /\ CallableCtor(c, T, r)
    \/ \E c, o \in Cont : Defined /\ CopyAssignThrows(c, o)
    \/ \E c \in Cont, T \in CallableTypes, r \in Resources :
         Defined /\ CallableAssign(c, T, r)
    \/ \E c \in Cont : Defined /\ NullAssign(c)
    \/ \E c \in Cont, arg \in Args : Defined /\ Call(c, arg)
    \/ \E c \in Cont : Defined /\ Dtor(c)

CopyFailSpec == CopyFailInit /\ [][CopyFailNext]_vars

\* The owning variants in both builds under construction, binding, moves,
\* self move assignments, invocation, null assignment and destruction.  A
\* behaviour is followed up to its first undefined operation.
SelfMoveNext ==
    \/ \E c \in Cont : Defined /\ DefaultCtor(c)
    \/ \E c \in Cont, T \in CallableTypes, r \in Resources :
         Defined /\ CallableCtor(c, T, r)
    \/ \E c, o \in Cont : Defined /\ MoveCtor(c, o)
    \/ \E c, o \in Cont : Defined /\ MoveAssign(c, o)
    \/ \E c \in Cont : Defined /\ SelfMoveAssign(c)
    \/ \E c \in Cont : Defined /\ NullAssign(c)
    \/ \E c \in Cont, arg \in Args : Defined /\ Call(c, arg)
    \/ \E c \in Cont : Defined /\ Dtor(c)

SelfMoveSpec == SigInit /\ [][SelfMoveNext]_vars

\* All six class templates: the owning containers as under SigSpec, the
\* non-owning wrappers as under RefSpec.
AllInit ==
    /\ variant \in Variants \cup NonOwning
    /\ alive = [c \in Cont |-> FALSE]
    /\ m_vtable = [c \in Cont |-> Indeterminate]
    /\ m_storage = [c \in Cont |-> RawStorage]
    /\ heap = [a \in Addrs |-> NoObj]
    /\ count = [r \in Resources |-> 0]
    /\ faults = {}
    /\ last = Op("init", 0, 0, 0)
    /\ NoExcept \in (IF variant \in NonOwning THEN {FALSE} ELSE BOOLEAN)
    /\ NDEBUG \in BOOLEAN
    /\ NoWrappers
    /\ NoStatics

AllNext ==
    \/ SigNext
    \/ RefNext

AllSpec == AllInit /\ [][AllNext]_vars

\* operator bool / operator==(nullptr): m_vtable == &null_vtable().
IsNull(c) == m_vtable[c] = null_vtable

\* The object the vtable vt dispatches to for the storage st on the heap hp:
\* the object in the storage bytes, or the object m_allocated points at.
PayloadOf(vt, st, hp) ==
    IF vt \notin CallableTypes THEN NoObj
    ELSE IF StoredInline(vt) THEN (IF st.k = "obj" THEN st.obj ELSE NoObj)
    ELSE (IF st.k = "ptr" THEN hp[st.addr] ELSE NoObj)

Live == {c \in Cont : alive[c]}
NonEmpty == {c \in Live : m_vtable[c] # null_vtable}

\* The containers whose storage is a pointer to the heap cell a.
Owners(a) == {c \in NonEmpty : m_storage[c].k = "ptr" /\ m_storage[c].addr = a}

\* ------------------------------------------------------------------ C1
\* C1: in every owning variant the table pointer of a container within its
\* lifetime is never null: it is the empty table or the table of a payload
\* type.
C1_VtableNeverNull ==
    \A c \in Cont : alive[c] =>
        /\ m_vtable[c] # nullptr
        /\ \/ m_vtable[c] = null_vtable
           \/ \E T \in CallableTypes : m_vtable[c] = callable_vtable(T)

\* An empty and a non-empty container side by side, right after a move
\* assignment reset one of them.
C1_Witness ==
    /\ last.op = "move_assign"
    /\ \E c, d \in Cont : /\ alive[c] /\ alive[d]
                          /\ m_vtable[c] = null_vtable
                          /\ m_vtable[d] \in CallableTypes

InlineObjects == {c \in Live : m_storage[c].k = "obj"}
HeapObjects == {a \in Addrs : heap[a] # NoObj}

C5_MovesKeepCount ==
    [][\A d, c \in Cont :
         (/\ last'.op \in {"move_ctor", "move_assign"}
          /\ d # c /\ m_vtable[c] # null_vtable
          /\ (MoveCtor(d, c) \/ (MoveAssign(d, c) /\ m_vtable[d] = null_vtable)))
         => /\ count' = count
            /\ heap' = heap
            /\ last'.released = 0
            /\ m_vtable'[d] # null_vtable /\ m_vtable'[c] = null_vtable]_vars

\* A payload whose counter stands at 1 sits in the destination of a move
\* construction, the source being empty.
C5_Witness ==
    /\ last.op = "move_ctor"
    /\ faults = {}
    /\ Cardinality(Live) = 2
    /\ \E d \in Cont : /\ NonEmpty = {d}
                       /\ PayloadOf(m_vtable[d], m_storage[d], heap).res \in Resources
                       /\ count[PayloadOf(m_vtable[d], m_storage[d], heap).res] = 1
\* ------------------------------------------------------------------ C6
\* C6: destroying a non-empty container releases its payload exactly once:
\* one payload object is destroyed, the count of the resource the payload was
\* bound to drops by exactly one and no other count changes; destroying an
\* empty (default-constructed, null-assigned or moved-from) container
\* releases nothing.
C6_DtorReleasesOnce ==
    [][\A c \in Cont :
         (last'.op = "dtor" /\ last'.self = c /\ Dtor(c))
         => IF m_vtable[c] = null_vtable
            THEN last'.released = 0 /\ count' = count /\ heap' = heap
            ELSE LET p == PayloadOf(m_vtable[c], m_storage[c], heap)
                 IN /\ last'.released = 1
                    /\ ~StoredInline(m_vtable[c]) => heap'[m_storage[c].addr] = NoObj
                    /\ \A r \in Resources :
                         count'[r] = IF r = p.res THEN count[r] - 1 ELSE count[r]]_vars

\* ------------------------------------------------------------------ C7
\* C7: no two distinct non-empty containers reference the same payload
\* object: every non-empty heap-storing container points at a live heap cell
\* that no other non-empty container points at (an inline payload lives in
\* its container's own bytes).
C7_NoSharedPayload ==
    \A c \in NonEmpty :
        ~StoredInline(m_vtable[c]) =>
            /\ m_storage[c].k = "ptr"
            /\ heap[m_storage[c].addr] # NoObj
            /\ Owners(m_storage[c].addr) = {c}

\* Two containers hold heap payloads of the same type in two cells, the
\* second made by copying the first.
C7_Witness ==
    /\ last.op = "copy_ctor"
    /\ \E c, d \in NonEmpty :
         /\ c # d
         /\ m_vtable[c] = callable_vtable("large") /\ m_vtable[d] = m_vtable[c]
         /\ m_storage[c].k = "ptr" /\ m_storage[d].k = "ptr"
         /\ m_storage[c].addr # m_storage[d].addr
\* ------------------------------------------------------------------ C8
\* C8: after a copy construction b(a) or a copy assignment b = a (b distinct
\* from a) b's table pointer equals a's table pointer, and when a is non-empty
\* b holds a payload of its own that equals a's payload, a's payload being
\* left as it was; whatever b held before.
C8_CopyAdoptsTableAndPayload ==
    [][\A b, a \in Cont :
         (/\ last'.op \in {"copy_ctor", "copy_assign"}
          /\ last'.self = b /\ last'.other = a /\ b # a
          /\ (CopyCtor(b, a) \/ CopyAssign(b, a)))
         => /\ m_vtable'[b] = m_vtable[a]
            /\ m_vtable'[a] = m_vtable[a]
            /\ m_vtable[a] # null_vtable =>
                 /\ PayloadOf(m_vtable'[b], m_storage'[b], heap')
                      = PayloadOf(m_vtable[a], m_storage[a], heap)
                 /\ PayloadOf(m_vtable'[a], m_storage'[a], heap')
                      = PayloadOf(m_vtable[a], m_storage[a], heap)
                 /\ ~StoredInline(m_vtable[a]) =>
                      m_storage'[b].addr # m_storage'[a].addr]_vars

\* ------------------------------------------------------------------ C9
\* The operations on one container that may follow a copy: a call,
\* a reassignment, the destruction.
OpsOnOne == {"call", "nullptr_assign", "callable_assign", "dtor"}

\* C9: once b = a has completed for a non-empty a distinct from b, b is
\* non-empty and owns a payload object distinct from a's, and a call of b, a
\* reassignment of b or the destruction of b leaves a's table pointer, a's
\* storage and a's payload as they were, a staying non-empty.
C9_CopyIsIndependent ==
    [][(/\ last.op = "copy_assign"
        /\ last.self # last.other
        /\ m_vtable[last.other] # null_vtable)
       => LET b == last.self
              a == last.other
          IN /\ m_vtable[b] # null_vtable
             /\ (~StoredInline(m_vtable[a]) /\ ~StoredInline(m_vtable[b]))
                    => m_storage[b].addr # m_storage[a].addr
             /\ (last'.op \in OpsOnOne /\ last'.self = b)
                    => /\ m_vtable'[a] = m_vtable[a]
                       /\ m_vtable'[a] # null_vtable
                       /\ m_storage'[a] = m_storage[a]
                       /\ PayloadOf(m_vtable'[a], m_storage'[a], heap')
                            = PayloadOf(m_vtable[a], m_storage[a], heap)]_vars

\* ------------------------------------------------------------------ C10
\* C10: x.swap(y) of two distinct non-empty containers leaves x with y's
\* former table and payload and y with x's, both non-empty, no payload
\* created or destroyed and every resource count as it was, for inline and
\* heap-stored payloads in every combination.
C10_SwapExchangesPayloads ==
    [][\A x, y \in Cont :
         (/\ last'.op = "swap" /\ last'.self = x /\ last'.other = y /\ x # y
          /\ m_vtable[x] # null_vtable /\ m_vtable[y] # null_vtable
          /\ Swap(x, y))
         => /\ m_vtable'[x] = m_vtable[y] /\ m_vtable'[y] = m_vtable[x]
            /\ m_vtable'[x] # null_vtable /\ m_vtable'[y] # null_vtable
            /\ PayloadOf(m_vtable'[x], m_storage'[x], heap')
                 = PayloadOf(m_vtable[y], m_storage[y], heap)
            /\ PayloadOf(m_vtable'[y], m_storage'[y], heap')
                 = PayloadOf(m_vtable[x], m_storage[x], heap)
            /\ PayloadOf(m_vtable'[x], m_storage'[x], heap').type = m_vtable'[x]
            /\ PayloadOf(m_vtable'[y], m_storage'[y], heap').type = m_vtable'[y]
            /\ count' = count
            /\ heap' = heap
            /\ last'.released = 0
            /\ faults' = {}]_vars

\* A swap has just exchanged an inline payload and a heap-stored payload
\* bound to different resources.
C10_Witness ==
    /\ last.op = "swap" /\ last.self # last.other
    /\ faults = {}
    /\ \E x, y \in NonEmpty :
         /\ x # y
         /\ StoredInline(m_vtable[x]) /\ ~StoredInline(m_vtable[y])
         /\ m_storage[x].obj.res \in Resources
         /\ heap[m_storage[y].addr].res \in Resources
         /\ m_storage[x].obj.res # heap[m_storage[y].addr].res
\* ------------------------------------------------------------------ C11
\* C11: x.swap(y) of a non-empty and an empty container, whichever of the two
\* is the receiver, leaves the formerly empty one with the other's table and
\* payload (the same inline object value, the very same heap cell) and the
\* formerly non-empty one empty; no payload is destroyed or created and every
\* resource count is as it was.
C11_SwapWithEmpty ==
    [][\A x, y \in Cont :
         (/\ last'.op = "swap" /\ last'.self = x /\ last'.other = y /\ x # y
          /\ (m_vtable[x] = null_vtable) # (m_vtable[y] = null_vtable)
          /\ Swap(x, y))
         => LET full == IF m_vtable[x] = null_vtable THEN y ELSE x
                void == IF m_vtable[x] = null_vtable THEN x ELSE y
            IN /\ m_vtable'[full] = null_vtable
               /\ m_vtable'[void] = m_vtable[full]
               /\ m_storage'[void] = m_storage[full]
               /\ PayloadOf(m_vtable'[void], m_storage'[void], heap')
                    = PayloadOf(m_vtable[full], m_storage[full], heap)
               /\ PayloadOf(m_vtable'[void], m_storage'[void], heap').type
                    = m_vtable[full]
               /\ m_storage'[full].k # "obj"
               /\ count' = count
               /\ heap' = heap
               /\ last'.released = 0
               /\ faults' = {}]_vars

\* A swap invoked on an empty receiver has just handed it the heap payload of
\* its argument, which is now empty.
C11_Witness ==
    /\ last.op = "swap" /\ last.self # last.other
    /\ last.self \in Cont /\ last.other \in Cont
    /\ m_vtable[last.other] = null_vtable
    /\ m_vtable[last.self] = callable_vtable("large")
    /\ m_storage[last.self].k = "ptr"
    /\ heap[m_storage[last.self].addr].res \in Resources
    /\ count[heap[m_storage[last.self].addr].res] = 1
\* ------------------------------------------------------------------ C12
\* swap as a function of the table pointers vt and the machine M, for
\* storages that hold what their tables say (each read then has one outcome):
\* the three moves through temp and the exchange of the table pointers.
SwapResult(vt, M, c, o) ==
    LET M0 == [M EXCEPT !.st = [@ EXCEPT ![Temp] = RawStorage]]
        r1 == CHOOSE r \in m_move_reads(vt[c], M0, c) : TRUE
        M1 == m_move(vt[c], M0, Temp, c, r1)
        r2 == CHOOSE r \in m_move_reads(vt[o], M1, o) : TRUE
        M2 == m_move(vt[o], M1, c, o, r2)
        r3 == CHOOSE r \in m_move_reads(vt[c], M2, Temp) : TRUE
        M3 == m_move(vt[c], M2, o, Temp, r3)
    IN [vt |-> [vt EXCEPT ![c] = vt[o], ![o] = vt[c]], M |-> M3]

\* C12: swap is an involution: for two distinct containers a and b, each
\* empty or non-empty, inline or heap-stored, a.swap(b) is the function
\* SwapResult of the state, and applying it a second time gives back every
\* container's original table pointer (emptiness) and payload, the original
\* heap and the original resource counts, without undefined behaviour.
C12_SwapTwiceRestores ==
    [][\A a, b \in Cont :
         (/\ last'.op = "swap" /\ last'.self = a /\ last'.other = b /\ a # b
          /\ Swap(a, b))
         => LET R1 == SwapResult(m_vtable, Machine, a, b)
                R2 == SwapResult(R1.vt, R1.M, a, b)
            IN /\ m_vtable' = R1.vt
               /\ \A c \in Live : m_storage'[c] = R1.M.st[c]
               /\ heap' = R1.M.heap /\ count' = R1.M.count
               /\ R2.vt = m_vtable
               /\ \A c \in Live :
                    PayloadOf(R2.vt[c], R2.M.st[c], R2.M.heap)
                        = PayloadOf(m_vtable[c], m_storage[c], heap)
               /\ R2.M.heap = heap
               /\ R2.M.count = count
               /\ R2.M.faults = {}]_vars

\* A swap has just exchanged an inline payload that a call has mutated and a
\* heap-stored payload; swapping once more changes both containers, swapping
\* twice more does not.
C12_Witness ==
    /\ last.op = "swap" /\ last.self # last.other
    /\ last.self \in NonEmpty /\ last.other \in NonEmpty
    /\ StoredInline(m_vtable[last.self]) /\ ~StoredInline(m_vtable[last.other])
    /\ m_storage[last.self].obj.val = 1
    /\ SwapResult(m_vtable, Machine, last.self, last.other).vt # m_vtable
\* C13: a self-swap a.swap(a) leaves a with the same emptiness and the same
\* payload, and during it no payload is move-constructed from, or constructed
\* into, storage whose object has already been destroyed (no read of dead
\* storage is recorded for the operation).
C13_SelfSwapIsGuarded ==
    [][\A a \in Cont :
         (last'.op = "swap" /\ last'.self = a /\ last'.other = a /\ Swap(a, a))
         => /\ m_vtable'[a] = m_vtable[a]
            /\ PayloadOf(m_vtable'[a], m_storage'[a], heap')
                 = PayloadOf(m_vtable[a], m_storage[a], heap)
            /\ faults' = {}]_vars
\* C14: a move assignment y = move(x) onto a non-empty y, x non-empty and
\* distinct from y, destroys y's previous payload exactly once (one payload
\* object is destroyed; the count of the resource it was bound to drops by
\* exactly one, to 0 when y was its only holder; a heap-stored one is
\* deallocated) and changes no other count, so the count of x's payload is as
\* before; afterwards x is empty and y dispatches to x's former payload.
C14_MoveAssignReleasesOld ==
    [][\A y, x \in Cont :
         (/\ last'.op = "move_assign" /\ last'.self = y /\ last'.other = x
          /\ y # x /\ m_vtable[y] # null_vtable /\ m_vtable[x] # null_vtable
          /\ MoveAssign(y, x))
         => LET py == PayloadOf(m_vtable[y], m_storage[y], heap)
                px == PayloadOf(m_vtable[x], m_storage[x], heap)
            IN /\ last'.released = 1
               /\ \A r \in Resources :
                    count'[r] = IF r = py.res THEN count[r] - 1 ELSE count[r]
               /\ ~StoredInline(m_vtable[y]) => heap'[m_storage[y].addr] = NoObj
               /\ m_vtable'[x] = null_vtable
               /\ m_vtable'[y] = m_vtable[x]
               /\ PayloadOf(m_vtable'[y], m_storage'[y], heap') = px]_vars
\* C15: x = nullptr on a non-empty x destroys the held payload exactly once
\* (one payload object is destroyed, none twice; a heap-stored one is
\* deallocated; a payload bound to a resource releases it once) and leaves x
\* empty; on an already empty x it destroys nothing and changes nothing.
C15_NullAssignDestroysOnce ==
    [][\A x \in Cont :
         (last'.op = "nullptr_assign" /\ last'.self = x /\ NullAssign(x))
         => /\ m_vtable'[x] = null_vtable
            /\ IF m_vtable[x] = null_vtable
               THEN /\ last'.released = 0
                    /\ m_vtable' = m_vtable /\ m_storage' = m_storage
                    /\ heap' = heap /\ count' = count /\ faults' = {}
               ELSE LET p == PayloadOf(m_vtable[x], m_storage[x], heap)
                    IN /\ last'.released = 1
                       /\ faults' \cap {"double_destroy", "double_free"} = {}
                       /\ IF StoredInline(m_vtable[x])
                          THEN m_storage'[x].k = "dead"
                          ELSE heap'[m_storage[x].addr] = NoObj
                       /\ (p.res \in Resources /\ p.skew = 0 /\ count[p.res] > 0)
                            => count'[p.res] = count[p.res] - 1]_vars

\* A null assignment has just destroyed a heap-stored payload, the only
\* holder of its resource: the container is empty, its cell deallocated and
\* the count back at 0.
C15_Witness ==
    /\ last.op = "nullptr_assign" /\ last.released = 1
    /\ alive[last.self] /\ m_vtable[last.self] = null_vtable
    /\ m_storage[last.self].k = "ptr"
    /\ heap[m_storage[last.self].addr] = NoObj
    /\ \A r \in Resources : count[r] = 0
\* C16: invoking a container that holds no payload never reaches a payload
\* (no storage, heap cell or count is read or written) and ends in an
\* unrecoverable abort for a non-throwing signature, in a bad-call failure
\* raised to the caller for a throwing signature.
C16_EmptyCallFails ==
    [][\A c \in Cont :
         (last'.op = "call" /\ last'.self = c /\ \E arg \in Args : CallEmpty(c, arg))
         => /\ UNCHANGED <<m_vtable, m_storage, heap, count, alive>>
            /\ faults' = {}
            /\ NoExcept => last'.exit \in {"abort", "terminate"}
            /\ ~NoExcept => last'.exit = "bad_function_call"]_vars

\* C16, amended: invoking a container that holds no payload never reaches a
\* payload; in a build with assertions enabled the call aborts on the failed
\* assertion of operator() whatever the signature, and in a build with NDEBUG
\* it ends in std::terminate for a non-throwing signature and raises
\* std::bad_function_call to the caller for a throwing one.
C16_EmptyCallByBuild ==
    [][\A c \in Cont :
         (last'.op = "call" /\ last'.self = c /\ \E arg \in Args : CallEmpty(c, arg))
         => /\ UNCHANGED <<m_vtable, m_storage, heap, count, alive>>
            /\ faults' = {}
            /\ last'.exit = IF ~NDEBUG THEN "abort"
                            ELSE IF NoExcept THEN "terminate"
                            ELSE "bad_function_call"]_vars

\* A moved-from container of a throwing signature has just been invoked in a
\* build with NDEBUG, and the caller has caught the bad-call failure.
C16_Witness ==
    /\ last.op = "call" /\ last.exit = "bad_function_call"
    /\ ~NoExcept /\ NDEBUG
    /\ m_vtable[last.self] = null_vtable
    /\ m_storage[last.self].k = "dead"
    /\ \E d \in NonEmpty : m_storage[d].k = "obj"
C18_OneAllocationPerHeapPayload ==
    [][HeapFallback(variant) =>
         LET self == last'.self
             Qualifies(T) == SizeOf(T) <= 16 /\ NothrowMove(T)
             OnHeap(vt) == vt \in CallableTypes /\ ~Qualifies(vt)
             HeapHolders == {c \in Cont : alive'[c] /\ OnHeap(m_vtable'[c])}
         IN /\ last'.allocated =
                 IF last'.op \in {"callable_ctor", "callable_assign"}
                    /\ OnHeap(m_vtable'[self])
                 THEN 1 ELSE 0
            /\ last'.freed =
                 IF last'.op \in {"dtor", "nullptr_assign", "callable_assign",
                                  "move_assign"}
                    /\ OnHeap(m_vtable[self])
                 THEN 1 ELSE 0
            /\ \A c \in HeapHolders :
                 /\ m_storage'[c].k = "ptr"
                 /\ heap'[m_storage'[c].addr] # NoObj
                 /\ \A d \in HeapHolders : d # c => m_storage'[d].addr # m_storage'[c].addr
            /\ Cardinality({a \in Addrs : heap'[a] # NoObj}) = Cardinality(HeapHolders)]_vars

\* Two heap-fallback containers, one holding the large payload and one the
\* small payload whose move may throw, have just been swapped: both payloads
\* are on the heap and the swap allocated and deallocated nothing.
C18_Witness ==
    /\ HeapFallback(variant)
    /\ last.op = "swap" /\ last.allocated = 0 /\ last.freed = 0
    /\ m_vtable[last.self] = callable_vtable("large")
    /\ m_vtable[last.other] = callable_vtable("throwing_move")
    /\ m_storage[last.self].k = "ptr" /\ m_storage[last.other].k = "ptr"
    /\ m_storage[last.self].addr # m_storage[last.other].addr
    /\ \A a \in Addrs : heap[a] # NoObj
C30_CallableAssignReleasesOld ==
    [][\A x \in Cont, T \in PayloadTypes, r \in Resources :
         (/\ last'.op = "callable_assign" /\ last'.self = x
          /\ m_vtable'[x] = callable_vtable(T)
          /\ PayloadOf(m_vtable'[x], m_storage'[x], heap').res = r
          /\ CallableAssign(x, T, r))
         => LET p == PayloadOf(m_vtable[x], m_storage[x], heap)
                old == IF m_vtable[x] = null_vtable THEN 0 ELSE p.res
            IN /\ last'.released = IF m_vtable[x] = null_vtable THEN 0 ELSE 1
               /\ faults' \cap {"double_destroy", "double_free"} = {}
               /\ PayloadOf(m_vtable'[x], m_storage'[x], heap') = Obj(T, r, 0)
               /\ \A a \in Addrs :
                    heap'[a] # NoObj =>
                       \/ (m_storage'[x].k = "ptr" /\ m_storage'[x].addr = a)
                       \/ (heap[a] # NoObj
                           /\ ~(m_vtable[x] \in PayloadTypes
                                /\ ~StoredInline(m_vtable[x])
                                /\ m_storage[x].addr = a))
               /\ \A q \in Resources :
                    count'[q] = count[q] + (IF q = r THEN 1 ELSE 0)
                                         - (IF q = old THEN 1 ELSE 0)]_vars
C29_HeapCopyReadsPointee ==
    [][\A b, a \in Cont :
         (/\ last'.op = "copy_ctor" /\ last'.self = b /\ last'.other = a
          /\ variant = "copyable_function"
          /\ m_vtable[a] \in PayloadTypes /\ ~StoredInline(m_vtable[a])
          /\ PayloadOf(m_vtable[a], m_storage[a], heap).type = m_vtable[a]
          /\ PayloadOf(m_vtable[a], m_storage[a], heap).res \in Resources
          /\ PayloadOf(m_vtable[a], m_storage[a], heap).skew = 0
          /\ CopyCtor(b, a))
         => LET p == PayloadOf(m_vtable[a], m_storage[a], heap)
            IN /\ last'.allocated = 1
               /\ m_storage'[b].k = "ptr"
               /\ m_storage'[b].addr # m_storage[a].addr
               /\ heap'[m_storage'[b].addr] = p
               /\ heap'[m_storage[a].addr] = p
               /\ faults' = {}
               /\ count'[p.res] = count[p.res] + 1]_vars
\* The wrapper w points at a function, or at a local variable of the client
\* that is still in scope.
TargetAlive(w) ==
    \/ m_target[w].seg = "code"
    \/ m_target[w].seg = "stack" /\ locals[m_target[w].at].live

\* The function a call through the target of w ends up in.
TargetFunction(w) ==
    IF m_target[w].seg = "code" THEN m_target[w].at
    ELSE locals[m_target[w].at].f

\* C21: for every class template, a call on a container or wrapper bound to
\* a callable invokes that callable exactly once with the given arguments
\* and returns what the callable returns for them: an owning container's
\* payload (inline or on the heap) has seen the argument and nothing else
\* about the container changes; a non-owning wrapper whose callable is still
\* in scope lands in the function, function pointer or functor it was bound
\* to and is itself unchanged.
C21_CallInvokesBoundCallable ==
    [][ /\ (/\ last'.op = "call" /\ last'.exit = "returned"
            /\ m_vtable[last'.self] \in CallableTypes)
           => LET c == last'.self
                  before == PayloadOf(m_vtable[c], m_storage[c], heap)
                  after == PayloadOf(m_vtable'[c], m_storage'[c], heap')
              IN /\ before # NoObj
                 /\ faults' = {}
                 /\ last'.invoked = 1
                 /\ \E arg \in Args :
                      /\ last'.ret = arg + Addend(before.type)
                      /\ after = [before EXCEPT !.val = arg]
                 /\ m_vtable' = m_vtable
                 /\ count' = count
                 /\ alive' = alive
        /\ (/\ last'.op \in {"ptr_call", "ref_call"} /\ last'.exit = "returned"
            /\ TargetAlive(last'.self))
           => /\ faults' = {}
              /\ last'.invoked = 1
              /\ last'.ret = invoke(TargetFunction(last'.self), last'.other)
              /\ UNCHANGED <<m_target, m_invoke_target, locals>>
      ]_vars

\* A heap-stored payload of a move_only_function has just been invoked with
\* the argument 1 and has returned its result for it.
C21_Witness ==
    /\ variant = "move_only_function"
    /\ last.op = "call" /\ last.exit = "returned" /\ last.invoked = 1
    /\ last.ret = 1 + Addend("large")
    /\ m_vtable[last.self] = callable_vtable("large")
    /\ PayloadOf(m_vtable[last.self], m_storage[last.self], heap).val = 1

\* explicit operator bool(): m_vtable != &null_vtable() in the owning
\* containers, m_target != nullptr in function_ptr.
operator_bool(c) ==
    IF variant = "function_ptr" THEN m_target[c] # NullTarget
    ELSE m_vtable[c] # null_vtable

\* An equality test that asks whether a trampoline was ever set.
operator_eq_nullptr_dispatch(c) ==
    IF variant = "function_ptr" THEN m_invoke_target[c] = Indeterminate
    ELSE m_vtable[c] = null_vtable

\* operator==(nullptr_t): m_vtable == &null_vtable(), m_target == nullptr.
operator_eq_nullptr(c) ==
    IF variant = "function_ptr" THEN m_target[c] = NullTarget
    ELSE m_vtable[c] = null_vtable

\* operator!=(nullptr_t): m_vtable != &null_vtable(), m_target != nullptr.
operator_ne_nullptr(c) ==
    IF variant = "function_ptr" THEN m_target[c] # NullTarget
    ELSE m_vtable[c] # null_vtable

\* The containers and function_ptr wrappers within their lifetime.
Testable ==
    IF variant \in Variants THEN Live
    ELSE IF variant = "function_ptr" THEN {w \in Cont : Constructed(w)}
    ELSE {}

\* A payload is owned by the container c, or the wrapper c holds the address
\* of a callable.
Bound(c) ==
    IF variant \in Variants
    THEN PayloadOf(m_vtable[c], m_storage[c], heap) # NoObj
    ELSE m_target[c].seg \in {"code", "stack"}

\* C22: in every state of a running program, for every owning container and
\* every function_ptr, bool(c), c != nullptr and !(c == nullptr) have the
\* same value, and that value is true exactly when a payload or target is
\* bound; a container that has just been default-constructed or constructed
\* from nullptr tests as not bound.
C22_NullTestsAgree ==
    ~Halted =>
      /\ \A c \in Testable :
           /\ operator_bool(c) = operator_ne_nullptr(c)
           /\ operator_bool(c) = ~operator_eq_nullptr(c)
           /\ operator_bool(c) = Bound(c)
      /\ last.op \in {"default_ctor", "nullptr_ctor", "ptr_default_ctor",
                      "ptr_null_ctor"}
           => /\ last.self \in Testable
              /\ ~operator_bool(last.self)
              /\ operator_eq_nullptr(last.self)
              /\ ~operator_ne_nullptr(last.self)

\* A function_ptr that was bound to a function has been assigned nullptr and
\* tests as null next to one that still holds a target.
C22_Witness ==
    /\ variant = "function_ptr"
    /\ last.op = "ptr_null_assign"
    /\ m_invoke_target[last.self] = "R(*)(A)"
    /\ operator_eq_nullptr(last.self) /\ ~operator_bool(last.self)
    /\ \E w \in Testable : operator_bool(w) /\ operator_ne_nullptr(w)

\* What a call of the wrapper w with the argument arg does in the current
\* state: the set of its outcomes.
CallOutcomes(w, arg) == invoke_target(m_invoke_target[w], m_target[w], arg)

\* The operations of function_ptr that write the members of a wrapper.
Reseating == {"ptr_default_ctor", "ptr_null_ctor", "ptr_copy_ctor",
              "ptr_ctor_function", "ptr_ctor_address_of",
              "ptr_ctor_pointer_variable", "ptr_ctor_functor",
              "ptr_assign_function", "ptr_assign_address_of",
              "ptr_assign_pointer_variable", "ptr_assign_functor",
              "ptr_copy_assign", "ptr_null_assign", "ptr_swap", "wrapper_dtor"}

\* C23: a function_ptr can be reseated from any state.  After x = g, x is
\* non-null and a call invokes g; after x = other, x has other's target and
\* trampoline, so a call does what a call of other does; after x = nullptr,
\* x is null.  Until the next operation that reseats x its members stay as
\* they are, and every call in between lands in the callable x was last
\* given as long as that callable is in scope.
C23_Reseat ==
    [][ /\ \A w \in Cont :
             (last'.self = w
              /\ last'.op \in {"ptr_assign_function", "ptr_assign_address_of",
                               "ptr_assign_pointer_variable", "ptr_assign_functor"})
                => /\ operator_bool(w)' /\ operator_ne_nullptr(w)'
                   /\ \A arg \in Args :
                        CallOutcomes(w, arg)' =
                            {[ret |-> invoke(last'.ret, arg), fault |-> {}]}
        /\ \A w, o \in Cont :
             (last'.self = w /\ last'.other = o /\ last'.op = "ptr_copy_assign")
                => /\ m_target'[w] = m_target[o]
                   /\ m_invoke_target'[w] = m_invoke_target[o]
                   /\ \A arg \in Args :
                        CallOutcomes(w, arg)' = CallOutcomes(o, arg)'
        /\ \A w \in Cont :
             (last'.self = w /\ last'.op = "ptr_null_assign")
                => operator_eq_nullptr(w)' /\ ~operator_bool(w)'
        /\ \A x \in Cont :
             (variant = "function_ptr"
              /\ (m_target'[x] # m_target[x]
                  \/ m_invoke_target'[x] # m_invoke_target[x]))
                => /\ last'.op \in Reseating
                   /\ x = last'.self \/ (last'.op = "ptr_swap" /\ x = last'.other)
        /\ (/\ last'.op = "ptr_call" /\ last'.exit = "returned"
            /\ TargetAlive(last'.self))
                => /\ last'.ret = invoke(TargetFunction(last'.self), last'.other)
                   /\ faults' = {}
      ]_vars

\* A function_ptr that pointed at a functor of the client has been reseated
\* to the function 2, next to another one that was null-assigned before.
C23_Witness ==
    /\ variant = "function_ptr"
    /\ last.op = "ptr_assign_function" /\ last.ret = 2
    /\ m_target[last.self] = CodeAddr(2)
    /\ locals[1].k = "functor" /\ locals[1].live
    /\ \E o \in Cont : o # last.self /\ m_target[o] = NullTarget
                         /\ m_invoke_target[o] = "Functor*"

\* C24: swap of two function_ptr values exchanges the target and the
\* trampoline together, so each wrapper then tests and calls as the other
\* did and every other wrapper is untouched; swapping the same pair again
\* restores both; a null wrapper swapped with a bound one becomes bound and
\* the bound one null.
C24_PtrSwapExchangesBoth ==
    [][ \A w, o \in Cont :
          (last'.op = "ptr_swap" /\ last'.self = w /\ last'.other = o)
          => /\ m_target'[w] = m_target[o] /\ m_target'[o] = m_target[w]
             /\ m_invoke_target'[w] = m_invoke_target[o]
             /\ m_invoke_target'[o] = m_invoke_target[w]
             /\ operator_bool(w)' = operator_bool(o)
             /\ operator_bool(o)' = operator_bool(w)
             /\ \A arg \in Args :
                  /\ CallOutcomes(w, arg)' = CallOutcomes(o, arg)
                  /\ CallOutcomes(o, arg)' = CallOutcomes(w, arg)
             /\ \A x \in Cont \ {w, o} :
                  /\ m_target'[x] = m_target[x]
                  /\ m_invoke_target'[x] = m_invoke_target[x]
             /\ locals' = locals /\ faults' = {}
             /\ LET again == swap_members(m_target', m_invoke_target', w, o)
                IN /\ again.m_target = m_target
                   /\ again.m_invoke_target = m_invoke_target
      ]_vars

\* A null function_ptr has just been swapped with one bound to a functor:
\* it now holds the functor's address and trampoline, the other is null.
C24_Witness ==
    /\ variant = "function_ptr"
    /\ last.op = "ptr_swap" /\ last.self # last.other
    /\ m_target[last.self] = StackAddr(1)
    /\ m_invoke_target[last.self] = "Functor*"
    /\ m_target[last.other] = NullTarget
    /\ m_invoke_target[last.other] = Indeterminate

\* The trampolines the wrappers instantiate.
Trampolines == {"R(*)(A)", "R(**)(A)", "Functor*"}

\* C25: a function_ref is bound in every reachable state.  It comes into
\* being only from a callable or as a copy of another function_ref; its
\* target and its trampoline are both non-null; no operation changes either
\* member of a function_ref within its lifetime; a copy has the target and
\* the trampoline of its source.
C25_RefAlwaysBound ==
    [][ variant = "function_ref" =>
        \A w \in Cont :
          /\ Constructed(w)' =>
               /\ m_target'[w].seg \in {"code", "stack"}
               /\ m_invoke_target'[w] \in Trampolines
          /\ (~Constructed(w) /\ Constructed(w)') =>
               /\ last'.self = w
               /\ last'.op \in {"ref_ctor_function", "ref_ctor_pointer_variable",
                                "ref_ctor_functor", "ref_copy_ctor"}
               /\ last'.op = "ref_copy_ctor" =>
                    /\ Constructed(last'.other)
                    /\ m_target'[w] = m_target[last'.other]
                    /\ m_invoke_target'[w] = m_invoke_target[last'.other]
                    /\ m_target'[last'.other] = m_target[last'.other]
          /\ (Constructed(w) /\ Constructed(w)') =>
               /\ m_target'[w] = m_target[w]
               /\ m_invoke_target'[w] = m_invoke_target[w]
      ]_vars

\* A function_ref has just been copied from one bound to a functor: both
\* hold the functor's address.
C25_Witness ==
    /\ variant = "function_ref"
    /\ last.op = "ref_copy_ctor"
    /\ m_target[last.self] = StackAddr(1)
    /\ m_target[last.other] = StackAddr(1)
    /\ m_invoke_target[last.self] = "Functor*"
    /\ locals[1].k = "functor"

\* C26: a function_ptr or function_ref bound to a function pointer value,
\* passed as the temporary &f or through a named variable, stores the
\* pointer's own value as its target and dispatches through the trampoline
\* for a plain function pointer, so that ending the scope of the variable
\* that held the pointer changes nothing about what a call of the wrapper
\* does.
C26_TargetIsPointerValue ==
    [][ /\ \A w \in Cont :
             (last'.self = w
              /\ last'.op \in {"ptr_ctor_address_of", "ptr_assign_address_of",
                               "ptr_ctor_pointer_variable",
                               "ptr_assign_pointer_variable",
                               "ref_ctor_pointer_variable"})
             => /\ m_target'[w] = CodeAddr(last'.ret)
                /\ m_target'[w] # StackAddr(last'.other)
                /\ m_invoke_target'[w] = "R(*)(A)"
        /\ \A s \in Locals :
             (last'.op = "end_scope" /\ last'.other = s /\ locals[s].k = "fnptr")
             => \A w \in Cont, arg \in Args :
                  Constructed(w) => CallOutcomes(w, arg)' = CallOutcomes(w, arg)
      ]_vars

\* C27: each table is constructed at most once in the life of the process.
\* When several threads reach the accessor of a table that is not yet
\* built, one of them constructs it and the others wait: a thread leaves the
\* accessor, and holds a reference, only to a table whose every member is
\* initialised; the table's members are written by the constructing thread
\* alone, and never again once the construction is complete.
C27_OneTablePerType ==
    [][ /\ \A T \in Statics :
             /\ instance'[T].constructions <= 1
             /\ guard[T] = "done"
                  => guard'[T] = "done" /\ instance'[T] = instance[T]
             /\ guard'[T] = "done" => instance'[T].members = NMembers
             /\ instance'[T] # instance[T]
                  => /\ guard'[T] = "running"
                     /\ Cardinality({t \in Threads :
                                       /\ thread'[t].pc = "construct"
                                       /\ thread'[t].T = T}) = 1
        /\ \A t \in Threads :
             /\ thread'[t].pc = "return"
                  => /\ guard'[thread'[t].T] = "done"
                     /\ instance'[thread'[t].T].members = NMembers
             /\ thread'[t].ref \in Statics
                  => /\ guard'[thread'[t].ref] = "done"
                     /\ instance'[thread'[t].ref].members = NMembers
                     /\ instance'[thread'[t].ref].constructions = 1
      ]_vars

\* One thread is in the middle of constructing the table of a payload type
\* while a second one waits at the same accessor and the third already
\* holds the empty table.
C27_Witness ==
    /\ thread[1].pc = "construct" /\ thread[1].T = callable_vtable("large")
    /\ instance[callable_vtable("large")].members = 1
    /\ thread[2].pc = "guard" /\ thread[2].T = callable_vtable("large")
    /\ thread[3].ref = null_vtable /\ thread[3].pc = "idle"

\* The number of payload objects within their lifetime.
LivePayloads == Cardinality(InlineObjects) + Cardinality(HeapObjects)

\* C31: in the heap-fallback variants a move construction, move assignment
\* or swap that moves a heap-stored payload only hands the stored pointer
\* over: the operation allocates nothing, frees nothing but the payload a
\* move assignment replaces, move-constructs no payload for it, and the
\* destination's pointer is the source's pointer to the same, unchanged heap
\* object.  A move of an inline payload (in any variant) move-constructs it
\* once in the destination and destroys the source object.  Either way the
\* number of live payload objects changes only by the payload a move
\* assignment replaces.
C31_HeapMoveTransfersPointer ==
    [][ /\ \A d, c \in Cont :
             (/\ last'.op \in {"move_ctor", "move_assign"}
              /\ last'.self = d /\ last'.other = c /\ d # c
              /\ m_vtable[c] \in CallableTypes)
             => LET old == IF last'.op = "move_assign" THEN m_vtable[d]
                           ELSE null_vtable
                    replaced == IF old = null_vtable THEN 0 ELSE 1
                    oldheap == IF old # null_vtable /\ ~StoredInline(old)
                               THEN 1 ELSE 0
                IN /\ last'.allocated = 0
                   /\ last'.freed = oldheap
                   /\ last'.released = replaced
                   /\ LivePayloads' = LivePayloads - replaced
                   /\ IF StoredInline(m_vtable[c])
                      THEN /\ last'.moved = 1
                           /\ m_storage[c].k = "obj"
                           /\ m_storage'[d] = m_storage[c]
                           /\ m_storage'[c] = DeadStorage
                      ELSE /\ last'.moved = 0
                           /\ m_storage[c].k = "ptr"
                           /\ m_storage'[d] = m_storage[c]
                           /\ heap'[m_storage[c].addr] = heap[m_storage[c].addr]
                           /\ heap'[m_storage[c].addr] # NoObj
        /\ \A x, y \in Cont :
             (last'.op = "swap" /\ last'.self = x /\ last'.other = y /\ x # y)
             => /\ last'.allocated = 0 /\ last'.freed = 0 /\ last'.released = 0
                /\ heap' = heap
                /\ LivePayloads' = LivePayloads
                /\ last'.moved =
                     (IF m_vtable[x] \in CallableTypes /\ StoredInline(m_vtable[x])
                      THEN 2 ELSE 0)
                     + (IF m_vtable[y] \in CallableTypes /\ StoredInline(m_vtable[y])
                        THEN 1 ELSE 0)
                /\ \A p \in {<<x, y>>, <<y, x>>} :
                     (m_vtable[p[1]] \in CallableTypes
                      /\ ~StoredInline(m_vtable[p[1]]))
                     => m_storage'[p[2]] = m_storage[p[1]]
      ]_vars

\* A swap has just exchanged a heap-stored payload and an inline one: two
\* move constructions for the receiver's inline payload, none for the heap
\* one, whose pointer the receiver now holds.
C31_Witness ==
    /\ HeapFallback(variant)
    /\ last.op = "swap" /\ last.self # last.other /\ last.moved = 2
    /\ last.allocated = 0 /\ last.freed = 0
    /\ m_vtable[last.self] = callable_vtable("large")
    /\ m_storage[last.self].k = "ptr"
    /\ m_vtable[last.other] = callable_vtable("small")
    /\ m_storage[last.other].k = "obj"

\* C32: when the copy of the payload throws during the copy assignment
\* b = a of a copyable variant, b is left consistent: b is empty, or b's
\* table is the table of a live payload in b's storage; and no later
\* operation destroys a payload that was already destroyed.
C32_FailedCopyLeavesConsistent ==
    [][ /\ \A b \in Cont :
             (last'.op = "copy_assign" /\ last'.exit = "exception"
              /\ last'.self = b)
             => \/ m_vtable'[b] = null_vtable
                \/ /\ PayloadOf(m_vtable'[b], m_storage'[b], heap') # NoObj
                   /\ PayloadOf(m_vtable'[b], m_storage'[b], heap').type
                        = m_vtable'[b]
        /\ faults' \cap {"double_destroy", "double_free", "bad_read"} = {}
      ]_vars

\* C33: the self copy-assignment a = a of a non-empty copyable container
\* leaves a holding a live payload equal to the one it held, leaves every
\* resource count as it was, and copy-constructs from no payload that was
\* already destroyed.
C33_SelfCopyAssignKeepsPayload ==
    [][ \A a \in Cont :
          (/\ last'.op = "copy_assign"
           /\ last'.self = a /\ last'.other = a
           /\ a \in NonEmpty
           /\ faults = {})
          => /\ a \in NonEmpty'
             /\ PayloadOf(m_vtable'[a], m_storage'[a], heap')
                  = PayloadOf(m_vtable[a], m_storage[a], heap)
             /\ count' = count
             /\ faults' = {}
      ]_vars

\* C34: an invocation, nested or not, leaves the container as it was but
\* for the state the payload keeps for itself: every table pointer, every
\* lifetime, the storage of every other container, the place of the payload,
\* the resource counts and the heap population are unchanged, nothing is
\* allocated, freed, moved or released, and a payload that invokes its own
\* container is dispatched to twice and is still the payload held.
C34_CallFrame ==
    [][ \A c \in Cont :
          (last'.op \in {"call", "reentrant_call"} /\ last'.self = c)
          => /\ m_vtable' = m_vtable
             /\ alive' = alive
             /\ count' = count
             /\ faults' = faults
             /\ \A o \in Cont \ {c} : m_storage'[o] = m_storage[o]
             /\ m_storage'[c].k = m_storage[c].k
             /\ m_storage'[c].addr = m_storage[c].addr
             /\ \A a \in Addrs :
                  (a \notin {m_storage[c].addr} \/ m_storage[c].k # "ptr")
                  => heap'[a] = heap[a]
             /\ last'.allocated = 0 /\ last'.freed = 0
             /\ last'.released = 0 /\ last'.moved = 0
             /\ last'.exit # "returned"
                  => /\ m_storage' = m_storage /\ heap' = heap
                     /\ last'.invoked = 0
             /\ last'.exit = "returned"
                  => LET before == PayloadOf(m_vtable[c], m_storage[c], heap)
                         after == PayloadOf(m_vtable'[c], m_storage'[c], heap')
                     IN /\ before # NoObj
                        /\ after = [before EXCEPT
                                      !.val = last'.ret - Addend(m_vtable[c])]
                        /\ last'.invoked
                             = IF last'.op = "call" THEN 1 ELSE 2
      ]_vars

C34_Witness ==
    /\ last.op = "reentrant_call"
    /\ last.invoked = 2
    /\ last.self \in NonEmpty
    /\ m_storage[last.self].k = "ptr"
    /\ PayloadOf(m_vtable[last.self], m_storage[last.self], heap).val = 1

\* C35: every operation on a function_ptr or function_ref leaves the
\* client's callables as they are (none is created, copied, moved or ends its
\* lifetime), allocates and releases nothing, and only a call enters a
\* callable; a copy construction or copy assignment leaves both wrappers
\* with the source's target.
C35_WrappersDoNotOwn ==
    [][ \A w \in Cont :
          (variant \in NonOwning /\ last'.self = w)
          => /\ locals' = locals
             /\ heap' = heap /\ count' = count
             /\ last'.allocated = 0 /\ last'.freed = 0
             /\ last'.released = 0 /\ last'.moved = 0
             /\ last'.op \notin {"ptr_call", "ref_call"} => last'.invoked = 0
             /\ last'.op \in {"ptr_copy_ctor", "ref_copy_ctor", "ptr_copy_assign"}
                  => /\ m_target'[w] = m_target[last'.other]
                     /\ m_target'[last'.other] = m_target[last'.other]
      ]_vars

C35_Witness ==
    /\ last.op = "wrapper_dtor"
    /\ \E o \in Cont, s \in Locals :
         /\ o # last.self
         /\ m_target[o] = StackAddr(s)
         /\ locals[s].live /\ locals[s].k = "functor"

\* The instantiation of function_ptr_invoke_target that casts the target of
\* w back to what it is: the function pointer itself, a pointer to a function
\* pointer variable, or a pointer to a functor.
TrampolineFor(w) ==
    IF m_target[w].seg = "code" THEN "R(*)(A)"
    ELSE IF locals[m_target[w].at].k = "fnptr" THEN "R(**)(A)"
    ELSE "Functor*"

\* C36: in function_ptr, a non-null target always comes with the trampoline
\* instantiated for what the target is.  Every operation that leaves a
\* wrapper with a non-null target it did not have before has set both
\* members from the callable, or taken both from the wrapper it copies or
\* swaps with; default and null construction leave the trampoline
\* uninitialised and null assignment leaves the one it had.
C36_TrampolineMatchesTarget ==
    [][ variant = "function_ptr" =>
        \A w \in Cont :
          /\ m_target'[w].seg \in {"code", "stack"}
               => m_invoke_target'[w] = TrampolineFor(w)'
          /\ (m_target'[w].seg \in {"code", "stack"}
              /\ m_target'[w] # m_target[w])
               => \/ /\ last'.self = w
                     /\ \E x \in Exprs :
                          /\ Denotes(x)
                          /\ last'.op \in {"ptr_ctor_" \o x.e, "ptr_assign_" \o x.e}
                          /\ m_target'[w] = assign(x).m_target
                          /\ m_invoke_target'[w] = assign(x).m_invoke_target
                  \/ /\ last'.op \in {"ptr_copy_ctor", "ptr_copy_assign", "ptr_swap"}
                     /\ \E o \in Cont \ {w} :
                          /\ {last'.self, last'.other} = {w, o}
                          /\ m_target'[w] = m_target[o]
                          /\ m_invoke_target'[w] = m_invoke_target[o]
          /\ (last'.self = w
              /\ last'.op \in {"ptr_default_ctor", "ptr_null_ctor"})
               => /\ m_target'[w] = NullTarget
                  /\ m_invoke_target'[w] = Indeterminate
          /\ (last'.self = w /\ last'.op = "ptr_null_assign")
               => /\ m_target'[w] = NullTarget
                  /\ m_invoke_target'[w] = m_invoke_target[w]
      ]_vars

C36_Witness ==
    /\ variant = "function_ptr"
    /\ last.op = "ptr_swap"
    /\ m_target[last.self].seg = "stack"
    /\ m_invoke_target[last.self] = "R(**)(A)"
    /\ m_target[last.other] = NullTarget
    /\ m_invoke_target[last.other] = "Functor*"

\* C37: a move from an empty container touches no storage.  Move
\* construction from an empty source gives an empty destination whose storage
\* was never written; move assignment from an empty source destroys the
\* payload the destination held exactly once (its resource is released once,
\* its heap cell freed once) and leaves both empty; in both the source's
\* storage, every other payload and the heap are otherwise as they were and
\* nothing is moved or allocated.
C37_MoveFromEmpty ==
    [][ \A d, c \in Cont :
          (/\ last'.op \in {"move_ctor", "move_assign"}
           /\ last'.self = d /\ last'.other = c
           /\ m_vtable[c] = null_vtable)
          => LET old == PayloadOf(m_vtable[d], m_storage[d], heap)
                 had == last'.op = "move_assign" /\ d \in NonEmpty
             IN /\ m_vtable'[d] = null_vtable /\ m_vtable'[c] = null_vtable
                /\ m_storage'[c] = m_storage[c]
                /\ last'.moved = 0 /\ last'.allocated = 0
                /\ last'.invoked = 0
                /\ faults' = faults
                /\ last'.op = "move_ctor" => m_storage'[d] = RawStorage
                /\ ~had => /\ heap' = heap /\ count' = count
                           /\ last'.released = 0 /\ last'.freed = 0
                           /\ LivePayloads' = LivePayloads
                /\ had => /\ old # NoObj
                          /\ last'.released = 1
                          /\ count' = [count EXCEPT ![old.res] = @ - 1]
                          /\ last'.freed
                               = IF StoredInline(m_vtable[d]) THEN 0 ELSE 1
                          /\ LivePayloads' = LivePayloads - 1
                          /\ \A a \in Addrs :
                               heap'[a] = IF m_storage[d].k = "ptr"
                                             /\ m_storage[d].addr = a
                                          THEN NoObj ELSE heap[a]
      ]_vars

C37_Witness ==
    /\ last.op = "move_assign"
    /\ last.released = 1 /\ last.freed = 1
    /\ last.moved = 0
    /\ m_vtable[last.self] = null_vtable
    /\ m_vtable[last.other] = null_vtable

C39_CallableAssignNeverThrows ==
    [][ /\ Halted => UNCHANGED vars
        /\ \A c \in Cont :
             (/\ HeapFallback(variant)
              /\ last'.op = "callable_assign" /\ last'.self = c)
             => /\ last'.exit \in {"returned", "terminate"}
                /\ last'.exit = "terminate"
                     => LET old == PayloadOf(m_vtable[c], m_storage[c], heap)
                        IN /\ Halted'
                           /\ last'.allocated = 0
                           /\ PayloadOf(m_vtable[c], m_storage'[c], heap') = NoObj
                           /\ old = NoObj
                                => /\ last'.released = 0 /\ last'.freed = 0
                                   /\ count' = count /\ heap' = heap
                           /\ old # NoObj
                                => /\ last'.released = 1
                                   /\ last'.freed
                                        = IF StoredInline(m_vtable[c]) THEN 0 ELSE 1
                                   /\ count' = [count EXCEPT ![old.res] = @ - 1]
      ]_vars

C39_Witness ==
    /\ HeapFallback(variant)
    /\ last.op = "callable_assign" /\ last.exit = "terminate"
    /\ last.released = 1 /\ last.freed = 1 /\ last.allocated = 0
    /\ m_vtable[last.self] = callable_vtable("large")
    /\ m_storage[last.self].k = "ptr"
    /\ heap[m_storage[last.self].addr] = NoObj

====
